---- MODULE Spec2Model ----
(***************************************************************************)
(* A model of the satellite data viewer: the collection registry and the   *)
(* pure functions over it (config/collections.js), the STAC search client  *)
(* (utils/stacApi.js), the application state container (App.jsx), what the *)
(* search form and the results list render (components/SearchBar.jsx,      *)
(* components/ImageList.jsx), the overlay effect and the search point of   *)
(* the Leaflet map adapter (components/MapLeaflet.jsx), and the download   *)
(* modal with its backend client (components/DownloadModal.jsx,            *)
(* utils/downloadApi.js).                                                  *)
(*                                                                         *)
(* JavaScript values of mixed type are tagged records: Null, Undefined,    *)
(* Str(s), Arr(a), Obj(r); a value inherited from Object.prototype is      *)
(* Inherited(key).  A thrown TypeError is the result TypeError.            *)
(***************************************************************************)
EXTENDS Integers, Sequences, FiniteSets, TLC

VARIABLES
    \* ---- the last call of an exported function and what it returned
    call, ret,
    \* ---- the legend objects of the COLLECTIONS table that were assigned to
    \* ---- since the module was loaded, by <<collection, band>>; and the call
    \* ---- made before `call` with what it returned
    registryWrites, previous,
    \* ---- App.jsx state
    searchResults, selectedImages, isLoading, currentBbox, error,
    currentCollection, selectedBands, elevationRange, thermalRange,
    \* ---- SearchBar.jsx state
    satellite,
    \* ---- the catalog request in flight, and how the last request settled
    request, response,
    \* ---- the requests still in flight that were sent before `request`
    overtaken,
    \* ---- MapLeaflet.jsx state: mapReady, showBoundaries, the overlayLayers
    \* ---- ref, the layers the overlay effect has on the Leaflet map (base map,
    \* ---- search rectangle and measurements aside), and whether the overlay
    \* ---- effect is scheduled (a dependency changed since it last ran)
    mapReady, showBoundaries, overlayLayers, mapLayers, effectPending,
    \* ---- MapLeaflet.jsx search point: isDrawing, the number of click handlers
    \* ---- startDrawing has registered on the map, the drawnRectangle ref, and
    \* ---- the search rectangles on the Leaflet map
    isDrawing, clickHandlers, drawnRectangle, rectangleLayers,
    \* ---- DownloadModal.jsx: its life cycle (rendered, mounted, unmounted),
    \* ---- its props, whether it has called onClose, and its state
    modalPhase, modalProps, closeRequested,
    selectedAsset, isDownloading, downloadError, backendAvailable,
    abortController, turnstileToken,
    \* ---- the bodies of the download requests sent so far, the requests not
    \* ---- yet settled, the requests whose signal is aborted, and the calls
    \* ---- of downloadFromUrl so far
    sentRequests, pendingDownloads, abortedDownloads, browserDownloads

vars == <<call, ret, registryWrites, previous, searchResults, selectedImages, isLoading, currentBbox, error,
          currentCollection, selectedBands, elevationRange, thermalRange,
          satellite, request, response, overtaken,
          mapReady, showBoundaries, overlayLayers, mapLayers, effectPending,
          isDrawing, clickHandlers, drawnRectangle, rectangleLayers,
          modalPhase, modalProps, closeRequested,
          selectedAsset, isDownloading, downloadError, backendAvailable,
          abortController, turnstileToken,
          sentRequests, pendingDownloads, abortedDownloads, browserDownloads>>

apiVars == <<call, ret, registryWrites, previous>>
appVars == <<searchResults, selectedImages, isLoading, currentBbox, error,
             currentCollection, selectedBands, elevationRange, thermalRange,
             satellite, request, response, overtaken>>
mapVars == <<mapReady, showBoundaries, overlayLayers, mapLayers, effectPending>>
drawVars == <<isDrawing, clickHandlers, drawnRectangle, rectangleLayers>>
modalVars == <<modalPhase, modalProps, closeRequested,
               selectedAsset, isDownloading, downloadError, backendAvailable,
               abortController, turnstileToken,
               sentRequests, pendingDownloads, abortedDownloads, browserDownloads>>

----------------------------------------------------------------------------
(* JavaScript values *)

Null        == [t |-> "null"]
Undefined   == [t |-> "undefined"]
TypeError   == [t |-> "TypeError"]
Str(s)      == [t |-> "string", v |-> s]
Arr(a)      == [t |-> "array", v |-> a]
Obj(r)      == [t |-> "object", v |-> r]
Num(n)      == [t |-> "number", v |-> n]
Bool(b)     == [t |-> "boolean", v |-> b]
Inherited(k) == [t |-> "inherited", key |-> k]

\* ToBoolean on the values the model uses: null, undefined and '' are falsy.
Truthy(x) == x.t \notin {"null", "undefined"} /\ x # Str("") /\ x # Bool(FALSE)

\* Property names every plain object inherits from Object.prototype.
ObjectPrototypeKeys ==
    {"constructor", "toString", "toLocaleString", "valueOf", "hasOwnProperty",
     "isPrototypeOf", "propertyIsEnumerable", "__proto__"}

\* obj[key] on an object literal: the own property, else the inherited one,
\* else undefined.
GetProp(obj, key) ==
    IF key \in DOMAIN obj THEN Obj(obj[key])
    ELSE IF key \in ObjectPrototypeKeys THEN Inherited(key)
    ELSE Undefined

----------------------------------------------------------------------------
(* config/collections.js: the registry *)

GradientInferno == "linear-gradient(to right, #000004, #420a68, #932667, #dd513a, #fca50a, #fcffa4)"
GradientBlues   == "linear-gradient(to right, #081d58, #253494, #225ea8, #1d91c0, #41b6c4, #7fcdbb, #c7e9b4, #edf8b1, #ffffd9)"
GradientRdYlGn  == "linear-gradient(to right, #a50026, #d73027, #f46d43, #fdae61, #fee08b, #ffffbf, #d9ef8b, #a6d96a, #66bd63, #1a9850, #006837)"
GradientTurbo   == "linear-gradient(to right, #23171b, #4e0d4e, #8c2981, #c84d6b, #f57e3e, #fbb43d, #e4e965)"
GradientViridis == "linear-gradient(to right, #440154, #31688e, #35b779, #fde724)"
GradientEarth   == "linear-gradient(to right, #0c1c5c, #1e4d8b, #2d7bb6, #3fa855, #7ac74f, #c4d968, #e8c167, #d89a5a, #c4734d, #ffffff)"

Band(label, assets, rescale, colormap, legend) ==
    [label |-> label, assets |-> assets, rescale |-> rescale,
     colormap |-> colormap, legend |-> legend]

Legend(title, min, max, gradient) ==
    Obj([title |-> title, min |-> min, max |-> max, gradient |-> gradient])

Sentinel2 ==
    [name |-> "Sentinel-2 L2A", displayName |-> "Sentinel-2 (Optical)",
     type |-> "optical", hasCloudFilter |-> TRUE, hasDateFilter |-> TRUE,
     bands |->
        ("visual"  :> Band("TCI", <<"visual">>, Null, Null, Null)) @@
        ("nir"     :> Band("IR", <<"B08">>, Str("0,4000"), Str("inferno"),
                           Legend("Near Infrared", "0", "4000", GradientInferno))) @@
        ("swir"    :> Band("SWIR", <<"B11">>, Str("0,4000"), Str("blues"),
                           Legend("Short Wave Infrared", "0", "4000", GradientBlues))) @@
        ("rededge" :> Band("Red Edge", <<"B05">>, Str("0,4000"), Str("rdylgn"),
                           Legend("Red Edge", "0", "4000", GradientRdYlGn))),
     defaultBand |-> "visual", bandLayout |-> "grid",
     metadata |-> [showTileId |-> TRUE, showCloudCover |-> TRUE]]

Landsat ==
    [name |-> "Landsat C2 L2", displayName |-> "Landsat C2 L2 (Multispectral)",
     type |-> "optical", hasCloudFilter |-> TRUE, hasDateFilter |-> TRUE,
     bands |->
        ("visual"  :> Band("TCI", <<"red", "green", "blue">>,
                           Arr(<<"7000,14000", "8000,13000", "8000,12000">>), Null, Null)) @@
        ("nir"     :> Band("NIR", <<"nir08">>, Str("0,30000"), Str("inferno"),
                           Legend("Near Infrared", "0", "30000", GradientInferno))) @@
        ("swir"    :> Band("SWIR", <<"swir16">>, Str("0,30000"), Str("blues"),
                           Legend("Short Wave Infrared", "0", "30000", GradientBlues))) @@
        ("thermal" :> Band("Thermal", <<"lwir11">>, Str("dynamic"), Str("turbo"),
                           Legend("Thermal", "dynamic", "dynamic", GradientTurbo))),
     defaultBand |-> "visual", bandLayout |-> "grid",
     metadata |-> [showTileId |-> FALSE, showCloudCover |-> TRUE]]

Sentinel1 ==
    [name |-> "Sentinel-1 RTC", displayName |-> "Sentinel-1 RTC (SAR)",
     type |-> "sar", hasCloudFilter |-> FALSE, hasDateFilter |-> TRUE,
     bands |->
        ("vv" :> Band("VV", <<"vv">>, Str("0,0.3"), Str("viridis"),
                      Legend("SAR VV Polarization", "0", "0.3", GradientViridis))) @@
        ("vh" :> Band("VH", <<"vh">>, Str("0,0.3"), Str("viridis"),
                      Legend("SAR VH Polarization", "0", "0.3", GradientViridis))),
     defaultBand |-> "vv", bandLayout |-> "flex",
     metadata |-> [showTileId |-> FALSE, showCloudCover |-> FALSE]]

Modis ==
    [name |-> "MODIS 13Q1", displayName |-> "MODIS Vegetation Indices",
     type |-> "vegetation", hasCloudFilter |-> FALSE, hasDateFilter |-> TRUE,
     bands |->
        ("ndvi" :> Band("NDVI", <<"250m_16_days_NDVI">>, Str("-2000,10000"), Str("rdylgn"),
                        Legend("NDVI", "-0.2", "1.0", GradientRdYlGn))) @@
        ("evi"  :> Band("EVI", <<"250m_16_days_EVI">>, Str("-2000,10000"), Str("rdylgn"),
                        Legend("EVI", "-0.2", "1.0", GradientRdYlGn))),
     defaultBand |-> "ndvi", bandLayout |-> "flex",
     metadata |-> [showTileId |-> FALSE, showCloudCover |-> FALSE]]

CopDem ==
    [name |-> "Copernicus DEM", displayName |-> "Copernicus DEM (Elevation)",
     type |-> "elevation", hasCloudFilter |-> FALSE, hasDateFilter |-> FALSE,
     bands |->
        ("elevation" :> Band("Elevation", <<"data">>, Str("dynamic"), Str("gist_earth"),
                             Legend("Elevation", "dynamic", "dynamic", GradientEarth))),
     defaultBand |-> "elevation", bandLayout |-> "none",
     metadata |-> [showTileId |-> FALSE, showCloudCover |-> FALSE]]

COLLECTIONS ==
    ("sentinel-2-l2a" :> Sentinel2) @@
    ("landsat-c2-l2"  :> Landsat)   @@
    ("sentinel-1-rtc" :> Sentinel1) @@
    ("modis-13Q1-061" :> Modis)     @@
    ("cop-dem-glo-30" :> CopDem)

\* The own keys of COLLECTIONS in insertion order (Object.keys).
CollectionKeys ==
    <<"sentinel-2-l2a", "landsat-c2-l2", "sentinel-1-rtc", "modis-13Q1-061", "cop-dem-glo-30">>

----------------------------------------------------------------------------
(* config/collections.js: buildTileUrl *)

baseUrl == "https://planetarycomputer.microsoft.com/api/data/v1/item/tiles/WebMercatorQuad/{z}/{x}/{y}@1x"

\* A range override the caller passes in options: a {min, max} object, or absent.
HasRange(r) == r # Undefined /\ r # Null

\* The template literal `${r.min},${r.max}`.
RangeString(r) == ToString(r.min) \o "," \o ToString(r.max)

\* bandConfig.assets.forEach(asset => params.append('assets', asset))
AssetParams(bandConfig) ==
    [i \in 1..Len(bandConfig.assets) |-> <<"assets", bandConfig.assets[i]>>]

\* Mutant: the two dynamic branches read each other's range.
RescaleParams_SwappedRanges(collection, band, bandConfig, options) ==
    IF bandConfig.rescale = Str("dynamic")
    THEN IF collection = "cop-dem-glo-30" /\ HasRange(options.thermalRange)
         THEN <<<<"rescale", RangeString(options.thermalRange)>>>>
         ELSE IF collection = "landsat-c2-l2" /\ band = "thermal" /\ HasRange(options.elevationRange)
         THEN <<<<"rescale", RangeString(options.elevationRange)>>>>
         ELSE <<>>
    ELSE IF bandConfig.rescale.t = "array"
    THEN [i \in 1..Len(bandConfig.rescale.v) |-> <<"rescale", bandConfig.rescale.v[i]>>]
    ELSE IF Truthy(bandConfig.rescale)
    THEN <<<<"rescale", bandConfig.rescale.v>>>>
    ELSE <<>>

\* The rescale parameters appended for a band (the "Handle rescale" block).
RescaleParams(collection, band, bandConfig, options) ==
    IF bandConfig.rescale = Str("dynamic")
    THEN IF collection = "cop-dem-glo-30" /\ HasRange(options.elevationRange)
         THEN <<<<"rescale", RangeString(options.elevationRange)>>>>
         ELSE IF collection = "landsat-c2-l2" /\ band = "thermal" /\ HasRange(options.thermalRange)
         THEN <<<<"rescale", RangeString(options.thermalRange)>>>>
         ELSE <<>>
    ELSE IF bandConfig.rescale.t = "array"
    THEN [i \in 1..Len(bandConfig.rescale.v) |-> <<"rescale", bandConfig.rescale.v[i]>>]
    ELSE IF Truthy(bandConfig.rescale)
    THEN <<<<"rescale", bandConfig.rescale.v>>>>
    ELSE <<>>

\* Mutant: a band without a colormap gets a default one.
ColormapParams_DefaultColormap(bandConfig) ==
    IF Truthy(bandConfig.colormap)
    THEN <<<<"colormap_name", bandConfig.colormap.v>>>>
    ELSE <<<<"colormap_name", "viridis">>>>

\* The colormap_name parameter (the "Handle colormap" block).
ColormapParams(bandConfig) ==
    IF Truthy(bandConfig.colormap)
    THEN <<<<"colormap_name", bandConfig.colormap.v>>>>
    ELSE <<>>

\* The numbers a bound of an elevation or thermal range takes.
RangeBounds ==
    {-100, -10, 0, 100, 150, 200, 500, 3000, 20000, 28000, 30000, 40000, 55000, 60000}

\* The strings without a reserved character that a rescale value is made of.
RescaleParts ==
    {"0", "4000", "30000", "0.3", "-2000", "10000", "7000", "14000", "8000", "13000", "12000"}
    \cup {ToString(n) : n \in RangeBounds}

\* application/x-www-form-urlencoded serialisation of the values that hold a
\* comma, as URLSearchParams.toString() does it: letters, digits and * - . _
\* stay, a comma becomes %2C.
EncodeTable ==
    LET pairs == RescaleParts \X RescaleParts
        raw(p) == p[1] \o "," \o p[2]
    IN  [v \in {raw(p) : p \in pairs} |->
            LET p == CHOOSE p \in pairs : raw(p) = v IN p[1] \o "%2C" \o p[2]]

\* The serialisation of one value.  Every value of the model without a comma
\* has no reserved character.
FormEncode(v) ==
    IF v \in DOMAIN EncodeTable THEN EncodeTable[v] ELSE v

RECURSIVE ParamsToString(_)
\* params.toString(): name=value pairs joined by &.
ParamsToString(params) ==
    IF params = <<>> THEN ""
    ELSE params[1][1] \o "=" \o FormEncode(params[1][2])
         \o (IF Len(params) > 1 THEN "&" ELSE "")
         \o ParamsToString(Tail(params))

\* The returned string, kept with the parameter list it serialises.
TileUrl(params) ==
    [t |-> "string", base |-> baseUrl, params |-> params,
     v |-> baseUrl \o "?" \o ParamsToString(params)]

buildTileUrl(collection, itemId, band, options) ==
    LET collectionConfig == GetProp(COLLECTIONS, collection) IN
    IF ~Truthy(collectionConfig) THEN Null
    \* an inherited value has no bands: collectionConfig.bands[band] throws
    ELSE IF collectionConfig.t = "inherited" THEN TypeError
    ELSE
    LET bandConfig == GetProp(collectionConfig.v.bands, band) IN
    IF ~Truthy(bandConfig) THEN Null
    \* an inherited value has no assets: bandConfig.assets[0] throws
    ELSE IF bandConfig.t = "inherited" THEN TypeError
    ELSE
    TileUrl(<<<<"collection", collection>>, <<"item", itemId>>>>
               \o AssetParams(bandConfig.v)
               \o RescaleParams(collection, band, bandConfig.v, options)
               \o ColormapParams(bandConfig.v))

----------------------------------------------------------------------------
(* config/collections.js: getLegendConfig and the accessors *)

\* bandConfig.legend as it now stands: the configured legend, or the object the
\* assignments to it have left.
RegistryLegend(collection, band, legend) ==
    IF <<collection, band>> \in DOMAIN registryWrites
    THEN registryWrites[<<collection, band>>]
    ELSE legend

\* The "Handle dynamic values" block, applied to the copy { ...bandConfig.legend }.
DynamicLegend(collection, band, legend, options) ==
    IF legend.min = "dynamic" /\ collection = "cop-dem-glo-30" /\ HasRange(options.elevationRange)
    THEN [legend EXCEPT !.min = ToString(options.elevationRange.min) \o "m",
                        !.max = ToString(options.elevationRange.max) \o "m"]
    ELSE IF legend.min = "dynamic" /\ collection = "landsat-c2-l2" /\ band = "thermal"
            /\ HasRange(options.thermalRange)
    THEN [legend EXCEPT !.min = ToString(options.thermalRange.min),
                        !.max = ToString(options.thermalRange.max)]
    ELSE legend

getLegendConfig(collection, band, options) ==
    LET collectionConfig == GetProp(COLLECTIONS, collection) IN
    IF ~Truthy(collectionConfig) THEN Null
    ELSE IF collectionConfig.t = "inherited" THEN TypeError
    ELSE
    LET bandConfig == GetProp(collectionConfig.v.bands, band) IN
    IF ~Truthy(bandConfig) THEN Null
    \* an inherited value has no legend: !bandConfig.legend
    ELSE IF bandConfig.t = "inherited" THEN Null
    ELSE IF ~Truthy(bandConfig.v.legend) THEN Null
    ELSE Obj(DynamicLegend(collection, band,
                           RegistryLegend(collection, band, bandConfig.v.legend.v), options))

\* The table after a call of getLegendConfig that assigns legend.min and
\* legend.max to bandConfig.legend itself (const legend = bandConfig.legend).
LegendWrites_NoCopy(collection, band, options) ==
    LET legend == getLegendConfig(collection, band, options) IN
    IF legend.t = "object"
       /\ legend.v # RegistryLegend(collection, band, COLLECTIONS[collection].bands[band].legend.v)
    THEN (<<collection, band>> :> legend.v) @@ registryWrites
    ELSE registryWrites

\* The table after a call of getLegendConfig: const legend = { ...bandConfig.legend }
\* is a new object, the assignments to legend.min and legend.max land on it,
\* and nothing else in the function assigns.
LegendWrites(collection, band, options) == registryWrites

\* COLLECTIONS[collectionId] || null
getCollection(collectionId) ==
    LET c == GetProp(COLLECTIONS, collectionId) IN
    IF Truthy(c) THEN c ELSE Null

\* Object.keys(COLLECTIONS)
getAllCollectionIds == CollectionKeys

\* collection?.bands[bandId] || null
getBandConfig(collectionId, bandId) ==
    LET collection == GetProp(COLLECTIONS, collectionId) IN
    IF collection.t \in {"null", "undefined"} THEN Null
    \* an inherited value has no bands: undefined[bandId] throws
    ELSE IF collection.t = "inherited" THEN TypeError
    ELSE LET b == GetProp(collection.v.bands, bandId) IN
         IF Truthy(b) THEN b ELSE Null

----------------------------------------------------------------------------
(* utils/stacApi.js: searchSatelliteData *)

\* A parameter default: the default applies when the argument is undefined.
Default(arg, d) == IF arg = Undefined THEN d ELSE arg.v

\* config?.hasDateFilter and config?.hasCloudFilter: the flag of a registered
\* collection; undefined (falsy) on null and on an inherited value.
ConfigFlag(config, flag) ==
    IF config.t = "object" THEN config.v[flag] ELSE FALSE

\* The datetime field, present when the collection has a date filter.
DatetimeField(config, startDate, endDate) ==
    IF ConfigFlag(config, "hasDateFilter")
    THEN [datetime |-> startDate \o "/" \o endDate]
    ELSE <<>>

\* Mutant: the cloud filter is decided by the date-filter flag.
QueryField_ByDateFlag(config, cloudCover) ==
    IF ConfigFlag(config, "hasDateFilter")
    THEN [query |-> [eo_cloud_cover |-> [lt |-> cloudCover]]]
    ELSE <<>>

\* The query field, present when the collection has a cloud filter.
QueryField(config, cloudCover) ==
    IF ConfigFlag(config, "hasCloudFilter")
    THEN [query |-> [eo_cloud_cover |-> [lt |-> cloudCover]]]
    ELSE <<>>

\* The body searchSatelliteData posts to STAC_API_URL/search.
searchSatelliteData(bbox, startDate, endDate, collectionArg, cloudCoverArg, limitArg) ==
    LET collection == Default(collectionArg, "sentinel-2-l2a")
        cloudCover == Default(cloudCoverArg, 20)
        limit      == Default(limitArg, 10)
        config     == getCollection(collection)
    IN  [collections |-> <<collection>>, bbox |-> bbox, limit |-> limit]
        @@ DatetimeField(config, startDate, endDate)
        @@ QueryField(config, cloudCover)

----------------------------------------------------------------------------
(* The arguments the exported functions are called with *)

RegisteredIds == DOMAIN COLLECTIONS

\* Collection ids a caller may pass: the registered ones, an unknown one, and
\* one that names a property of Object.prototype.
CollectionInputs == RegisteredIds \cup {"invalid-collection", "constructor"}

AllBands == UNION {DOMAIN COLLECTIONS[c].bands : c \in RegisteredIds}

BandInputs == AllBands \cup {"invalid-band", "constructor"}

ItemIds == {"S2A_T32UNG_20240612", "LC09_L2SP_196021"}

ElevationInputs == {Undefined, [min |-> -10, max |-> 150], [min |-> 0, max |-> 3000]}

ThermalInputs == {Undefined, [min |-> 28000, max |-> 55000], [min |-> 30000, max |-> 40000]}

OptionInputs == [elevationRange : ElevationInputs, thermalRange : ThermalInputs]

BboxInputs == {<<12, 55, 13, 56>>, <<-74, 40, -73, 41>>}

CloudCoverInputs == {Undefined, Num(0), Num(35)}

LimitInputs == {Undefined, Num(5)}

\* A call that has not returned yet.
Pending == [t |-> "pending"]

\* The module as loaded: no entry of the table has been assigned to, no call
\* has been made.
RegistryLoaded ==
    /\ registryWrites = <<>>
    /\ previous = Null

\* The calls of the exported functions, one per choice of arguments.
BuildTileUrlCalls ==
    {[fn |-> "buildTileUrl", collection |-> c, itemId |-> i, band |-> b, options |-> o] :
        c \in CollectionInputs, i \in ItemIds, b \in BandInputs, o \in OptionInputs}

GetLegendConfigCalls ==
    {[fn |-> "getLegendConfig", collection |-> c, band |-> b, options |-> o] :
        c \in CollectionInputs, b \in BandInputs, o \in OptionInputs}

GetCollectionCalls ==
    {[fn |-> "getCollection", collection |-> c] : c \in CollectionInputs}

GetAllCollectionIdsCalls == {[fn |-> "getAllCollectionIds"]}

GetBandConfigCalls ==
    {[fn |-> "getBandConfig", collection |-> c, band |-> b] :
        c \in CollectionInputs, b \in BandInputs}

SearchSatelliteDataCalls ==
    {[fn |-> "searchSatelliteData", bbox |-> bbox,
      startDate |-> "2024-06-01", endDate |-> "2024-07-31",
      collection |-> c, cloudCover |-> cc, limit |-> l] :
        bbox \in BboxInputs, c \in {Undefined} \cup {Str(x) : x \in CollectionInputs},
        cc \in CloudCoverInputs, l \in LimitInputs}

Calls ==
    BuildTileUrlCalls \cup GetLegendConfigCalls \cup GetCollectionCalls
    \cup GetAllCollectionIdsCalls \cup GetBandConfigCalls \cup SearchSatelliteDataCalls

CallBuildTileUrl ==
    /\ call.fn = "buildTileUrl" /\ ret = Pending
    /\ ret' = buildTileUrl(call.collection, call.itemId, call.band, call.options)
    /\ UNCHANGED <<call, registryWrites, previous, appVars, mapVars, drawVars, modalVars>>

CallGetLegendConfig ==
    /\ call.fn = "getLegendConfig" /\ ret = Pending
    /\ ret' = getLegendConfig(call.collection, call.band, call.options)
    /\ registryWrites' = LegendWrites(call.collection, call.band, call.options)
    /\ UNCHANGED <<call, previous, appVars, mapVars, drawVars, modalVars>>

CallGetCollection ==
    /\ call.fn = "getCollection" /\ ret = Pending
    /\ ret' = getCollection(call.collection)
    /\ UNCHANGED <<call, registryWrites, previous, appVars, mapVars, drawVars, modalVars>>

CallGetAllCollectionIds ==
    /\ call.fn = "getAllCollectionIds" /\ ret = Pending
    /\ ret' = Arr(getAllCollectionIds)
    /\ UNCHANGED <<call, registryWrites, previous, appVars, mapVars, drawVars, modalVars>>

CallGetBandConfig ==
    /\ call.fn = "getBandConfig" /\ ret = Pending
    /\ ret' = getBandConfig(call.collection, call.band)
    /\ UNCHANGED <<call, registryWrites, previous, appVars, mapVars, drawVars, modalVars>>

CallSearchSatelliteData ==
    /\ call.fn = "searchSatelliteData" /\ ret = Pending
    /\ ret' = Obj(searchSatelliteData(call.bbox, call.startDate, call.endDate,
                                      call.collection, call.cloudCover, call.limit))
    /\ UNCHANGED <<call, registryWrites, previous, appVars, mapVars, drawVars, modalVars>>

----------------------------------------------------------------------------
(* The specification of the exported functions: any call, any arguments *)

\* App.jsx useState initial values, SearchBar.jsx initial collection.
InitApp ==
    /\ searchResults = Null
    /\ selectedImages = <<>>
    /\ isLoading = FALSE
    /\ currentBbox = Null
    /\ error = Null
    /\ currentCollection = "sentinel-2-l2a"
    /\ selectedBands = <<>>
    /\ elevationRange = [min |-> -10, max |-> 150]
    /\ thermalRange = [min |-> 28000, max |-> 55000]
    /\ satellite = "sentinel-2-l2a"
    /\ request = Null
    /\ response = Null
    /\ overtaken = <<>>

\* MapLeaflet.jsx useState/useRef initial values.
InitMap ==
    /\ mapReady = FALSE
    /\ showBoundaries = TRUE
    /\ overlayLayers = <<>>
    /\ mapLayers = {}
    /\ effectPending = TRUE

\* MapLeaflet.jsx: isDrawing is false, no click handler, no search rectangle.
InitDraw ==
    /\ isDrawing = FALSE
    /\ clickHandlers = 0
    /\ drawnRectangle = Null
    /\ rectangleLayers = {}

\* DownloadModal.jsx useState initial values.
InitModalState ==
    /\ selectedAsset = Null
    /\ isDownloading = FALSE
    /\ downloadError = Null
    /\ backendAvailable = Null
    /\ abortController = Null
    /\ turnstileToken = Null
    /\ closeRequested = FALSE
    /\ sentRequests = <<>>
    /\ pendingDownloads = {}
    /\ abortedDownloads = {}
    /\ browserDownloads = <<>>

\* No download modal is rendered.
NoModal ==
    /\ modalPhase = "unmounted"
    /\ modalProps = Null
    /\ InitModalState

InitApi ==
    /\ call \in Calls
    /\ ret = Pending
    /\ RegistryLoaded
    /\ InitApp
    /\ InitMap
    /\ InitDraw
    /\ NoModal

NextApi ==
    \/ CallBuildTileUrl
    \/ CallGetLegendConfig
    \/ CallGetCollection
    \/ CallGetAllCollectionIds
    \/ CallGetBandConfig
    \/ CallSearchSatelliteData

SpecApi == InitApi /\ [][NextApi]_vars

\* The calls the map makes once per render for a band whose legend labels are
\* dynamic: its tile URL and its legend.
RenderCalls ==
    LET dynamic == {<<"cop-dem-glo-30", "elevation">>, <<"landsat-c2-l2", "thermal">>} IN
    {c \in BuildTileUrlCalls \cup GetLegendConfigCalls : <<c.collection, c.band>> \in dynamic}

\* The next call of buildTileUrl or getLegendConfig, after the last one returned.
NextCall ==
    /\ ret # Pending
    /\ call' \in RenderCalls
    /\ ret' = Pending
    /\ previous' = [call |-> call, ret |-> ret]
    /\ UNCHANGED <<registryWrites, appVars, mapVars, drawVars, modalVars>>

InitRegistry ==
    /\ call \in RenderCalls
    /\ ret = Pending
    /\ RegistryLoaded
    /\ InitApp
    /\ InitMap
    /\ InitDraw
    /\ NoModal

NextRegistry ==
    \/ CallBuildTileUrl
    \/ CallGetLegendConfig
    \/ NextCall

SpecRegistry == InitRegistry /\ [][NextRegistry]_vars

----------------------------------------------------------------------------
(* utils/stacApi.js formatStacItem, and the catalog the searches are answered from *)

\* Coordinates are in hundredths of a degree.
\* Features the catalog may return: two with a valid bbox, one whose corners
\* are in the wrong order, one without a bbox.
Catalog ==
    << [id |-> "tile-1", bbox |-> Arr(<<1200, 5500, 1300, 5600>>)],
       [id |-> "tile-2", bbox |-> Arr(<<1250, 5550, 1350, 5650>>)],
       [id |-> "tile-3", bbox |-> Arr(<<1300, 5600, 1200, 5500>>)],
       [id |-> "tile-4", bbox |-> Null] >>

\* The longest feature list a response holds.
MaxResults == 2

\* The feature lists a response holds: a run of consecutive catalog entries, at
\* most MaxResults long, or none.
FeatureLists ==
    {SubSeq(Catalog, i, j) : i \in 1..Len(Catalog), j \in 0..Len(Catalog)} \cap
    {f \in Seq({Catalog[k] : k \in 1..Len(Catalog)}) : Len(f) <= MaxResults}

\* Mutant: the item is tagged with the collection of the results on display.
formatStacItem_CurrentCollection(item, collection) ==
    [id |-> item.id, bbox |-> item.bbox, collection |-> currentCollection]

\* formatStacItem(item, collection): the fields the state container and the map read.
formatStacItem(item, collection) ==
    [id |-> item.id, bbox |-> item.bbox, collection |-> collection]

----------------------------------------------------------------------------
(* components/MapLeaflet.jsx: the overlay effect *)

\* The dependency array of the overlay effect.
EffectDeps_NoRanges ==
    {"selectedImages", "searchResults", "mapReady", "currentCollection",
     "selectedBands", "showBoundaries"}

EffectDeps ==
    {"selectedImages", "searchResults", "mapReady", "currentCollection",
     "selectedBands", "elevationRange", "thermalRange", "showBoundaries"}

\* A commit that set the given state: the overlay effect is scheduled when one
\* of its dependencies was set.
Schedule(changed) ==
    effectPending' = (effectPending \/ changed \cap EffectDeps # {})

Range(seq) == {seq[k] : k \in 1..Len(seq)}

\* selectedBands[image.id] || collectionConfig?.defaultBand || 'visual'
OverlayBand(imageId) ==
    IF imageId \in DOMAIN selectedBands THEN selectedBands[imageId]
    ELSE LET collectionConfig == getCollection(currentCollection) IN
         IF collectionConfig.t = "object" THEN collectionConfig.v.defaultBand ELSE "visual"

\* The tile URL of an overlay, from the props of the current render.
OverlayUrl(imageId) ==
    buildTileUrl(currentCollection, imageId, OverlayBand(imageId),
                 [elevationRange |-> elevationRange, thermalRange |-> thermalRange])

\* The bbox checks of the effect: present, four entries, south <= north and
\* west <= east ([west, south, east, north]).
BboxAccepted(bbox) ==
    /\ Truthy(bbox)
    /\ Len(bbox.v) = 4
    /\ ~(bbox.v[2] > bbox.v[4] \/ bbox.v[1] > bbox.v[3])

\* The entry pushed for an accepted image: the tile layer and, when boundaries
\* are shown, the border rectangle, both added to the map.  A layer object is
\* told apart by its stamp: the run that created it and its place in that run.
OverlayEntry(image, n, k) ==
    LET bounds == <<<<image.bbox.v[2], image.bbox.v[1]>>, <<image.bbox.v[4], image.bbox.v[3]>>>>
    IN  [image  |-> [kind |-> "tileLayer", url |-> OverlayUrl(image.id), bounds |-> bounds,
                     stamp |-> <<n, k, "image">>],
         border |-> IF showBoundaries
                    THEN [kind |-> "rectangle", bounds |-> bounds,
                          stamp |-> <<n, k, "border">>]
                    ELSE Null,
         id     |-> image.id]

\* searchResults.filter(item => selectedImages.includes(item.id))
SelectedImageObjects ==
    SelectSeq(searchResults.v, LAMBDA item : item.id \in Range(selectedImages))

RECURSIVE AddOverlays(_, _, _)
\* selectedImageObjects.forEach(...): the entries pushed, in order.  A null tile
\* URL makes Leaflet throw while the tile layer loads its first tile inside
\* addTo; the catch swallows it and nothing is pushed for that image.
AddOverlays(images, n, k) ==
    IF images = <<>> THEN <<>>
    ELSE IF BboxAccepted(Head(images).bbox) /\ OverlayUrl(Head(images).id).t = "string"
         THEN <<OverlayEntry(Head(images), n, k)>> \o AddOverlays(Tail(images), n, k + 1)
         ELSE AddOverlays(Tail(images), n, k + 1)

RECURSIVE UnrecordedLayers(_, _, _)
\* The tile layers whose addTo threw: registered on the map, never pushed.
UnrecordedLayers(images, n, k) ==
    IF images = <<>> THEN {}
    ELSE (IF BboxAccepted(Head(images).bbox) /\ OverlayUrl(Head(images).id).t # "string"
          THEN {OverlayEntry(Head(images), n, k).image} ELSE {})
         \cup UnrecordedLayers(Tail(images), n, k + 1)

\* The layers an overlay list holds.
LayersOf(overlays) ==
    {overlays[k].image : k \in 1..Len(overlays)}
    \cup {overlays[k].border : k \in {j \in 1..Len(overlays) : overlays[j].border # Null}}

\* Mutant: only the image layers of the previous run are removed.
RemovedLayers_ImagesOnly(overlays) ==
    {overlays[k].image : k \in 1..Len(overlays)}

\* The layers the effect removes from the map before it adds the new ones.
RemovedLayers(overlays) ==
    LayersOf(overlays)

\* The stamp of the layers a run creates: the first number no layer left on the
\* map carries (Leaflet numbers its layers; those off the map are of no account).
FreshStamp(layers) ==
    LET used == {l.stamp[1] : l \in layers}
    IN  CHOOSE n \in 0..Cardinality(layers) :
           n \notin used /\ \A m \in 0..Cardinality(layers) : m \notin used => n <= m

\* The overlay effect (useEffect on EffectDeps).
OverlayEffect ==
    /\ effectPending
    /\ effectPending' = FALSE
    /\ IF ~mapReady
       THEN UNCHANGED <<overlayLayers, mapLayers>>
       ELSE LET kept  == mapLayers \ RemovedLayers(overlayLayers)
                n     == FreshStamp(kept)
                \* with a selection and no results searchResults.filter throws
                \* and the effect ends after the removal
                none  == selectedImages = <<>> \/ searchResults = Null
                added == IF none THEN <<>> ELSE AddOverlays(SelectedImageObjects, n, 1)
                stray == IF none THEN {} ELSE UnrecordedLayers(SelectedImageObjects, n, 1)
            IN  /\ overlayLayers' = added
                /\ mapLayers' = kept \cup LayersOf(added) \cup stray
    /\ UNCHANGED <<mapReady, showBoundaries, apiVars, drawVars, modalVars, appVars>>

\* The mount effect: the Leaflet map is created and mapReady is set.
MapInit ==
    /\ ~mapReady
    /\ ~effectPending
    /\ mapReady' = TRUE
    /\ Schedule({"mapReady"})
    /\ UNCHANGED <<showBoundaries, overlayLayers, mapLayers, apiVars, drawVars, modalVars, appVars>>

\* The Hide/Show Boundaries button.
ToggleBoundaries ==
    /\ mapReady
    /\ ~effectPending
    /\ showBoundaries' = ~showBoundaries
    /\ Schedule({"showBoundaries"})
    /\ UNCHANGED <<mapReady, overlayLayers, mapLayers, apiVars, drawVars, modalVars, appVars>>

\* Half the side of the search square, in hundredths of a degree.
latOffset == 9
lngOffset == 15

\* The points of the map the user clicks.
ClickPoints == {[lat |-> 5568, lng |-> 1257], [lat |-> 4000, lng |-> -7400]}

\* The map centre: Copenhagen.
MapCenter == [lat |-> 5568, lng |-> 1257]

\* The most click handlers the model lets startDrawing register.
MaxHandlers == 2

\* Mutant: the Set Search Point button is never disabled.
DrawEnabled_Always == TRUE

\* The Set Search Point button: disabled={isDrawing}.
DrawEnabled == ~isDrawing

\* startDrawing up to map.current.on('click', onClick).
StartDrawing ==
    /\ DrawEnabled
    /\ mapReady
    /\ ~effectPending
    /\ clickHandlers < MaxHandlers
    /\ isDrawing' = TRUE
    /\ clickHandlers' = clickHandlers + 1
    /\ UNCHANGED <<drawnRectangle, rectangleLayers, appVars, mapVars, apiVars, modalVars>>

\* L.latLngBounds around the clicked point, as [west, south, east, north].
ClickBounds(p) ==
    <<p.lng - lngOffset, p.lat - latOffset, p.lng + lngOffset, p.lat + latOffset>>

\* L.rectangle(bounds, ...): a new layer, told from the rectangles on the map by
\* the first number none of them carries.
NewRectangle(bounds, layers) ==
    [bounds |-> bounds,
     stamp  |-> CHOOSE n \in 0..Cardinality(layers) :
                    /\ \A l \in layers : l.stamp # n
                    /\ \A m \in 0..(n - 1) : \E l \in layers : l.stamp = m]

\* onClick: the rectangles on the map once the old one is removed and the new
\* one is added.
RectanglesAfterClick(rectangle) ==
    (IF drawnRectangle # Null THEN rectangleLayers \ {drawnRectangle} ELSE rectangleLayers)
    \cup {rectangle}

\* A click on the map.  Leaflet calls every handler registered for 'click'; the
\* onClick of startDrawing replaces the rectangle, reports its bounds through
\* onBboxChange, unregisters itself and clears isDrawing.  With no handler
\* registered the click changes nothing.
MapClick ==
    /\ mapReady
    /\ ~effectPending
    /\ \E p \in ClickPoints :
         IF clickHandlers = 0
         THEN UNCHANGED <<drawVars, currentBbox, effectPending>>
         ELSE LET rectangle == NewRectangle(ClickBounds(p), rectangleLayers)
              IN  /\ rectangleLayers' = RectanglesAfterClick(rectangle)
                  /\ drawnRectangle' = rectangle
                  /\ currentBbox' = Arr(ClickBounds(p))
                  /\ clickHandlers' = 0
                  /\ isDrawing' = FALSE
                  /\ Schedule({"currentBbox"})
    /\ UNCHANGED <<searchResults, selectedImages, isLoading, error, currentCollection,
                   selectedBands, elevationRange, thermalRange, satellite, request, response,
                   mapReady, showBoundaries, overlayLayers, mapLayers, overtaken, apiVars,
                   modalVars>>

\* The Clear Search Point button, rendered while drawnRectangle.current is set:
\* the rectangle is removed and onBboxChange(null) is called.
ClearSearchPoint ==
    /\ mapReady
    /\ ~effectPending
    /\ drawnRectangle # Null
    /\ rectangleLayers' = rectangleLayers \ {drawnRectangle}
    /\ drawnRectangle' = Null
    /\ currentBbox' = Null
    /\ Schedule({"currentBbox"})
    /\ UNCHANGED <<searchResults, selectedImages, isLoading, error, currentCollection,
                   selectedBands, elevationRange, thermalRange, satellite, request, response,
                   mapReady, showBoundaries, overlayLayers, mapLayers, overtaken, apiVars,
                   isDrawing, clickHandlers, modalVars>>

----------------------------------------------------------------------------
(* App.jsx and the controls of SearchBar.jsx and ImageList.jsx that call it *)

\* SearchBar useState initial values of the date and cloud cover inputs.
initialStartDate == "2024-06-01"
initialEndDate == "2024-07-31"
initialCloudCover == 20

\* The rows of ImageList are rendered: not loading, and a non-empty result list.
RowsRendered ==
    /\ ~isLoading
    /\ searchResults # Null
    /\ searchResults.v # <<>>

\* The collections the user picks in the form.
CollectionChoices == {"sentinel-2-l2a", "landsat-c2-l2", "cop-dem-glo-30"}

\* The collection <select> of SearchBar.
SelectCollection ==
    /\ ~isLoading
    /\ ~effectPending
    /\ \E c \in Range(getAllCollectionIds) \cap CollectionChoices :
         /\ c # satellite
         /\ satellite' = c
    /\ UNCHANGED <<searchResults, selectedImages, isLoading, currentBbox, error,
                   currentCollection, selectedBands, elevationRange, thermalRange,
                   request, response, overtaken, apiVars, drawVars, modalVars, mapVars>>

\* Mutant: the square around the map centre is used before the map is ready.
searchBbox_CentreAlways ==
    IF currentBbox # Null THEN currentBbox
    ELSE Arr(<<MapCenter.lng - lngOffset, MapCenter.lat - latOffset,
               MapCenter.lng + lngOffset, MapCenter.lat + latOffset>>)

\* handleSearch up to the await: the search area is the search point, else a
\* square around the map centre once the map has handed its zoom function over.
searchBbox ==
    IF currentBbox # Null THEN currentBbox
    ELSE IF mapReady
         THEN Arr(<<MapCenter.lng - lngOffset, MapCenter.lat - latOffset,
                    MapCenter.lng + lngOffset, MapCenter.lat + latOffset>>)
         ELSE Null

\* The most requests that are in flight behind the one sent last.
MaxOvertaken == 1

\* Mutant: the submit button is never disabled.
SubmitEnabled_Always == TRUE

\* The submit button of SearchBar: disabled={isLoading}.
SubmitEnabled == ~isLoading

\* The submit button of SearchBar calling handleSearch, which sends the
\* catalog request.  A request still in flight stays in flight behind it.
SubmitSearch ==
    /\ SubmitEnabled
    /\ ~effectPending
    /\ searchBbox # Null
    /\ request # Null => Len(overtaken) < MaxOvertaken
    /\ isLoading' = TRUE
    /\ error' = Null
    /\ request' = [t |-> "pending", collection |-> satellite,
                   body |-> searchSatelliteData(searchBbox.v, initialStartDate, initialEndDate,
                                                Str(satellite), Num(initialCloudCover),
                                                Undefined)]
    /\ overtaken' = IF request = Null THEN overtaken ELSE Append(overtaken, request)
    /\ response' = Null
    /\ Schedule({"isLoading", "error"})
    /\ UNCHANGED <<searchResults, selectedImages, currentBbox, currentCollection,
                   selectedBands, elevationRange, thermalRange, satellite,
                   mapReady, showBoundaries, overlayLayers, mapLayers, apiVars, drawVars, modalVars>>

\* handleSearch without a search area: the error is set and nothing is sent.
SubmitWithoutArea ==
    /\ SubmitEnabled
    /\ ~effectPending
    /\ searchBbox = Null
    /\ error' = Str("Unable to determine search area")
    /\ Schedule({"error"})
    /\ UNCHANGED <<searchResults, selectedImages, isLoading, currentBbox, currentCollection,
                   selectedBands, elevationRange, thermalRange, satellite, request, response,
                   mapReady, showBoundaries, overlayLayers, mapLayers, overtaken, apiVars, drawVars, modalVars>>

\* How a request settles without results: the request is rejected (network
\* error or a status that is not ok), or the body has no features array and
\* results.features.map throws inside the try block.
Failures == {[t |-> "rejected"], [t |-> "resolved", features |-> Undefined]}

\* The requests in flight, in the order they were sent.
InFlight == overtaken \o (IF request = Null THEN <<>> ELSE <<request>>)

\* The k-th request in flight settles and is in flight no longer.
Settles(k) ==
    IF k = Len(overtaken) + 1
    THEN request' = Null /\ overtaken' = overtaken
    ELSE /\ request' = request
         /\ overtaken' = SubSeq(overtaken, 1, k - 1) \o SubSeq(overtaken, k + 1, Len(overtaken))

\* Mutant: the finally block is missing.
SearchSucceeded_NoFinally ==
    /\ \E k \in 1..Len(InFlight) :
         /\ \E features \in FeatureLists :
              /\ response' = [t |-> "resolved", features |-> Arr(features)]
              /\ searchResults' = Arr([j \in 1..Len(features) |->
                                         formatStacItem(features[j], InFlight[k].collection)])
         /\ currentCollection' = InFlight[k].collection
         /\ Settles(k)
    /\ selectedImages' = <<>>
    /\ selectedBands' = <<>>
    /\ Schedule({"searchResults", "selectedImages", "currentCollection", "selectedBands"})
    /\ UNCHANGED <<currentBbox, error, elevationRange, thermalRange, satellite, isLoading,
                   mapReady, showBoundaries, overlayLayers, mapLayers, apiVars, drawVars, modalVars>>

\* A request resolves with a FeatureCollection and the handleSearch that sent
\* it continues after the await: the results replace the old ones, selection
\* and band choices are emptied, the collection is set, and the finally block
\* stops loading.
SearchSucceeded ==
    /\ \E k \in 1..Len(InFlight) :
         /\ \E features \in FeatureLists :
              /\ response' = [t |-> "resolved", features |-> Arr(features)]
              /\ searchResults' = Arr([j \in 1..Len(features) |->
                                         formatStacItem(features[j], InFlight[k].collection)])
         /\ currentCollection' = InFlight[k].collection
         /\ Settles(k)
    /\ selectedImages' = <<>>
    /\ selectedBands' = <<>>
    /\ isLoading' = FALSE
    /\ Schedule({"searchResults", "selectedImages", "currentCollection", "selectedBands",
                 "isLoading"})
    /\ UNCHANGED <<currentBbox, error, elevationRange, thermalRange, satellite,
                   mapReady, showBoundaries, overlayLayers, mapLayers, apiVars, drawVars, modalVars>>

\* Mutant: the catch block resets the band choices too.
SearchFailed_ResetsBands ==
    /\ \E k \in 1..Len(InFlight) : Settles(k)
    /\ \E failure \in Failures : response' = failure
    /\ error' = Str("Failed to search for imagery. Please try again.")
    /\ searchResults' = Null
    /\ selectedImages' = <<>>
    /\ selectedBands' = <<>>
    /\ isLoading' = FALSE
    /\ Schedule({"error", "searchResults", "selectedImages", "selectedBands", "isLoading"})
    /\ UNCHANGED <<currentBbox, currentCollection, elevationRange, thermalRange,
                   satellite, mapReady, showBoundaries, overlayLayers, mapLayers, apiVars, drawVars, modalVars>>

\* A request settles without results and the handleSearch that sent it
\* continues after the await in its catch block, then finally.
SearchFailed ==
    /\ \E k \in 1..Len(InFlight) : Settles(k)
    /\ \E failure \in Failures : response' = failure
    /\ error' = Str("Failed to search for imagery. Please try again.")
    /\ searchResults' = Null
    /\ selectedImages' = <<>>
    /\ isLoading' = FALSE
    /\ Schedule({"error", "searchResults", "selectedImages", "isLoading"})
    /\ UNCHANGED <<currentBbox, currentCollection, selectedBands, elevationRange, thermalRange,
                   satellite, mapReady, showBoundaries, overlayLayers, mapLayers, apiVars, drawVars, modalVars>>

\* handleToggleImage from a row's checkbox.
ToggleImage ==
    /\ RowsRendered
    /\ ~effectPending
    /\ \E k \in 1..Len(searchResults.v) :
         LET id == searchResults.v[k].id IN
         selectedImages' = IF id \in Range(selectedImages)
                           THEN SelectSeq(selectedImages, LAMBDA x : x # id)
                           ELSE Append(selectedImages, id)
    /\ Schedule({"selectedImages"})
    /\ UNCHANGED <<searchResults, isLoading, currentBbox, error, currentCollection,
                   selectedBands, elevationRange, thermalRange, satellite, request, response,
                   mapReady, showBoundaries, overlayLayers, mapLayers, overtaken, apiVars, drawVars, modalVars>>

\* handleClearSelections from the Clear All button.
ClearSelections ==
    /\ RowsRendered
    /\ ~effectPending
    /\ selectedImages # <<>>
    /\ selectedImages' = <<>>
    /\ Schedule({"selectedImages"})
    /\ UNCHANGED <<searchResults, isLoading, currentBbox, error, currentCollection,
                   selectedBands, elevationRange, thermalRange, satellite, request, response,
                   mapReady, showBoundaries, overlayLayers, mapLayers, overtaken, apiVars, drawVars, modalVars>>

\* The band buttons a row offers: the bands of the item's collection, none when
\* its bandLayout is 'none'.
BandChoices(item) ==
    LET config == getCollection(item.collection) IN
    IF ~Truthy(config) \/ config.v.bandLayout = "none" THEN {}
    ELSE DOMAIN config.v.bands

\* Mutant: the result list is looked at before isLoading.
ImageList_ResultsFirst(items, loading) ==
    IF items # Null /\ items.v # <<>>
    THEN [view |-> "results",
          text |-> "Found " \o ToString(Len(items.v)) \o " images",
          rows |-> [k \in 1..Len(items.v) |->
                      [id |-> items.v[k].id, checkbox |-> TRUE,
                       bands |-> BandChoices(items.v[k]), zoom |-> mapReady]]]
    ELSE IF loading
    THEN [view |-> "loading", text |-> "Searching for satellite imagery...", rows |-> <<>>]
    ELSE IF items = Null
    THEN [view |-> "ready", text |-> "Ready to search!", rows |-> <<>>]
    ELSE [view |-> "empty", text |-> "No imagery found. Try adjusting your search criteria:",
          rows |-> <<>>]

\* What ImageList renders: the view, its message or header, and for each row
\* its checkbox, its band buttons and whether it has a zoom button (rendered
\* once the map has handed its zoom function over).
ImageList(items, loading) ==
    IF loading
    THEN [view |-> "loading", text |-> "Searching for satellite imagery...", rows |-> <<>>]
    ELSE IF items = Null
    THEN [view |-> "ready", text |-> "Ready to search!", rows |-> <<>>]
    ELSE IF items.v = <<>>
    THEN [view |-> "empty", text |-> "No imagery found. Try adjusting your search criteria:",
          rows |-> <<>>]
    ELSE [view |-> "results",
          text |-> "Found " \o ToString(Len(items.v)) \o " images",
          rows |-> [k \in 1..Len(items.v) |->
                      [id |-> items.v[k].id, checkbox |-> TRUE,
                       bands |-> BandChoices(items.v[k]), zoom |-> mapReady]]]

\* The band buttons the user clicks.
BandClicks == {"visual", "rededge", "thermal"}

\* handleBandChange from a row's band button.
BandChange ==
    /\ RowsRendered
    /\ ~effectPending
    /\ \E k \in 1..Len(searchResults.v) :
         \E band \in BandChoices(searchResults.v[k]) \cap BandClicks :
            selectedBands' = (searchResults.v[k].id :> band) @@ selectedBands
    /\ Schedule({"selectedBands"})
    /\ UNCHANGED <<searchResults, selectedImages, isLoading, currentBbox, error,
                   currentCollection, elevationRange, thermalRange, satellite, request,
                   response, mapReady, showBoundaries, overlayLayers, mapLayers,
                   overtaken, apiVars, drawVars, modalVars>>

\* The positions the sliders are moved to.
ElevationMinChoices == {0}
ElevationMaxChoices == {150}
ThermalMinChoices == {30000}
ThermalMaxChoices == {55000}

\* Mutant: the min slider writes the new minimum and leaves the maximum.
MinSliderChange_NoClamp(range, newMin) ==
    [range EXCEPT !.min = newMin]

\* onChange of a min slider.
MinSliderChange(range, newMin) ==
    IF newMin > range.max THEN [min |-> newMin, max |-> newMin]
    ELSE [range EXCEPT !.min = newMin]

\* onChange of a max slider.
MaxSliderChange(range, newMax) ==
    IF newMax < range.min THEN [min |-> newMax, max |-> newMax]
    ELSE [range EXCEPT !.max = newMax]

\* Mutant: the thermal sliders are rendered for landsat-c2-l2 whatever the bands.
SearchBarControls_ThermalAlways(collectionId, bands) ==
    LET config == getCollection(collectionId) IN
    [dates     |-> config.t = "object" /\ config.v.hasDateFilter,
     cloud     |-> config.t = "object" /\ config.v.hasCloudFilter,
     elevation |-> collectionId = "cop-dem-glo-30",
     thermal   |-> collectionId = "landsat-c2-l2"]

\* The inputs SearchBar renders below the collection <select>: the date
\* inputs on collectionConfig?.hasDateFilter, the cloud cover slider on
\* collectionConfig?.hasCloudFilter, the elevation sliders for cop-dem-glo-30,
\* the thermal sliders for landsat-c2-l2 when
\* Object.values(selectedBands).includes('thermal').
SearchBarControls(collectionId, bands) ==
    LET config == getCollection(collectionId) IN
    [dates     |-> config.t = "object" /\ config.v.hasDateFilter,
     cloud     |-> config.t = "object" /\ config.v.hasCloudFilter,
     elevation |-> collectionId = "cop-dem-glo-30",
     thermal   |-> collectionId = "landsat-c2-l2"
                   /\ "thermal" \in {bands[i] : i \in DOMAIN bands}]

\* The elevation sliders moved to one of the given positions: rendered for
\* cop-dem-glo-30 and disabled while loading.
ElevationSliderTo(mins, maxs) ==
    /\ SearchBarControls(satellite, selectedBands).elevation
    /\ ~isLoading
    /\ ~effectPending
    /\ \/ \E v \in mins : elevationRange' = MinSliderChange(elevationRange, v)
       \/ \E v \in maxs : elevationRange' = MaxSliderChange(elevationRange, v)
    /\ Schedule({"elevationRange"})
    /\ UNCHANGED <<searchResults, selectedImages, isLoading, currentBbox, error,
                   currentCollection, selectedBands, thermalRange, satellite, request,
                   response, mapReady, showBoundaries, overlayLayers, mapLayers,
                   overtaken, apiVars, drawVars, modalVars>>

\* The thermal sliders moved to one of the given positions: rendered for
\* landsat-c2-l2 when an image has the thermal band chosen, disabled while
\* loading.
ThermalSliderTo(mins, maxs) ==
    /\ SearchBarControls(satellite, selectedBands).thermal
    /\ ~isLoading
    /\ ~effectPending
    /\ \/ \E v \in mins : thermalRange' = MinSliderChange(thermalRange, v)
       \/ \E v \in maxs : thermalRange' = MaxSliderChange(thermalRange, v)
    /\ Schedule({"thermalRange"})
    /\ UNCHANGED <<searchResults, selectedImages, isLoading, currentBbox, error,
                   currentCollection, selectedBands, elevationRange, satellite, request,
                   response, mapReady, showBoundaries, overlayLayers, mapLayers,
                   overtaken, apiVars, drawVars, modalVars>>

ElevationSlider == ElevationSliderTo(ElevationMinChoices, ElevationMaxChoices)

ThermalSlider == ThermalSliderTo(ThermalMinChoices, ThermalMaxChoices)

InitView ==
    /\ call = [fn |-> "none"]
    /\ ret = Pending
    /\ RegistryLoaded
    /\ InitApp
    /\ InitMap
    /\ InitDraw
    /\ NoModal

NextView ==
    \/ MapInit
    \/ OverlayEffect
    \/ ToggleBoundaries
    \/ SelectCollection
    \/ SubmitSearch
    \/ SubmitWithoutArea
    \/ SearchSucceeded
    \/ SearchFailed
    \/ ToggleImage
    \/ ClearSelections
    \/ BandChange
    \/ ElevationSlider
    \/ ThermalSlider

\* The viewer: the state container, its controls and the map.
Spec == InitView /\ [][NextView]_vars

\* The steps of the search lifecycle: the map, the form with its search point,
\* and handleSearch.  The rows of the results list are left untouched.
NextSearch ==
    \/ MapInit
    \/ OverlayEffect
    \/ StartDrawing
    \/ MapClick
    \/ ClearSearchPoint
    \/ SelectCollection
    \/ SubmitSearch
    \/ SubmitWithoutArea
    \/ SearchSucceeded
    \/ SearchFailed

\* The search lifecycle when every request settles: the promise handleSearch
\* awaits is resolved or rejected, and its continuation is a microtask the
\* event loop runs.
FairSpec ==
    /\ InitView
    /\ [][NextSearch]_vars
    /\ WF_vars(SearchSucceeded \/ SearchFailed)

\* Positions of the sliders: the elevation minimum runs from -100 to 500 in
\* steps of 10, the elevation maximum from 0 to 5000 in steps of 50, both
\* thermal bounds from 20000 to 60000 in steps of 500.
ElevationMinPositions == {-100, 0, 200, 500}
ElevationMaxPositions == {0, 100, 150, 3000}
ThermalMinPositions == {20000, 30000, 60000}
ThermalMaxPositions == {20000, 40000, 55000}

ElevationSliderMoves == ElevationSliderTo(ElevationMinPositions, ElevationMaxPositions)

ThermalSliderMoves == ThermalSliderTo(ThermalMinPositions, ThermalMaxPositions)

\* The viewer after a Landsat search that found the first two catalog entries,
\* with the first one selected, its thermal band chosen and its overlay on the
\* map; the ranges are the initial ones.
InitSliders ==
    /\ call = [fn |-> "none"]
    /\ ret = Pending
    /\ RegistryLoaded
    /\ searchResults = Arr(<<formatStacItem(Catalog[1], "landsat-c2-l2"),
                             formatStacItem(Catalog[2], "landsat-c2-l2")>>)
    /\ selectedImages = <<Catalog[1].id>>
    /\ isLoading = FALSE
    /\ currentBbox = Null
    /\ error = Null
    /\ currentCollection = "landsat-c2-l2"
    /\ selectedBands = (Catalog[1].id :> "thermal")
    /\ elevationRange = [min |-> -10, max |-> 150]
    /\ thermalRange = [min |-> 28000, max |-> 55000]
    /\ satellite = "landsat-c2-l2"
    /\ request = Null
    /\ response = [t |-> "resolved", features |-> Arr(SubSeq(Catalog, 1, 2))]
    /\ overtaken = <<>>
    /\ mapReady = TRUE
    /\ showBoundaries = TRUE
    /\ overlayLayers = AddOverlays(SelectedImageObjects, 0, 1)
    /\ mapLayers = LayersOf(overlayLayers)
    /\ effectPending = FALSE
    /\ InitDraw
    /\ NoModal

NextSliders ==
    \/ OverlayEffect
    \/ ToggleBoundaries
    \/ SelectCollection
    \/ ElevationSliderMoves
    \/ ThermalSliderMoves

\* The range sliders over positions that cross: the form's collection is
\* switched between the one that shows the elevation sliders and the one that
\* shows the thermal sliders, and the overlay follows the ranges.
SpecSliders == InitSliders /\ [][NextSliders]_vars

----------------------------------------------------------------------------
(* components/DownloadModal.jsx and utils/downloadApi.js *)

\* The collections and the item the modal is opened for.
ModalCollections == {"modis-13Q1-061", "sentinel-1-rtc", "cop-dem-glo-30"}
ModalItems == {"S2A_T32UNG_20240612"}

\* The tokens the Turnstile widget hands to its callback.
Tokens == {Str("token-1"), Str("token-2")}

\* The most download requests the model lets one modal send.
MaxDownloads == 2

\* Everything outside the modal.
outsideModal == <<apiVars, appVars, mapVars, drawVars>>

\* const collectionConfig = getCollection(collection)
modalCollectionConfig == getCollection(modalProps.collection)

\* collectionConfig ? Object.keys(collectionConfig.bands) : []
availableBands ==
    IF Truthy(modalCollectionConfig) THEN DOMAIN modalCollectionConfig.v.bands ELSE {}

\* Mutant: downloads are disabled for no collection.
downloadsDisabled_Never == FALSE

\* collectionConfig?.type === 'sar'
downloadsDisabled ==
    Truthy(modalCollectionConfig) /\ modalCollectionConfig.v.type = "sar"

\* The modal after its first render, before its effects have run, over the
\* viewer in its initial state.
InitModal ==
    /\ call = [fn |-> "none"]
    /\ ret = Pending
    /\ RegistryLoaded
    /\ InitApp
    /\ InitMap
    /\ InitDraw
    /\ modalPhase = "rendered"
    /\ modalProps \in [collection : ModalCollections, item : [id : ModalItems]]
    /\ InitModalState

\* The effects of the first commit: the default asset is selected; the health
\* check is started and the Turnstile widget is rendered (or its script is
\* loaded), whose results arrive in later steps.
ModalMount ==
    /\ modalPhase = "rendered"
    /\ modalPhase' = "mounted"
    /\ selectedAsset' = IF availableBands # {} /\ ~Truthy(selectedAsset)
                        THEN Str(modalCollectionConfig.v.defaultBand)
                        ELSE selectedAsset
    /\ UNCHANGED <<modalProps, closeRequested, isDownloading, downloadError,
                   backendAvailable, abortController, turnstileToken, sentRequests,
                   pendingDownloads, abortedDownloads, browserDownloads, outsideModal>>

\* checkBackendHealth().then(setBackendAvailable): response.ok, false on error.
HealthReported ==
    /\ modalPhase = "mounted"
    /\ backendAvailable = Null
    /\ \E ok \in BOOLEAN : backendAvailable' = Bool(ok)
    /\ UNCHANGED <<modalPhase, modalProps, closeRequested, selectedAsset, isDownloading,
                   downloadError, abortController, turnstileToken, sentRequests,
                   pendingDownloads, abortedDownloads, browserDownloads, outsideModal>>

\* The Turnstile widget's callback: setTurnstileToken(token).
TurnstileCallback ==
    /\ modalPhase = "mounted"
    /\ \E token \in Tokens : turnstileToken' = token
    /\ UNCHANGED <<modalPhase, modalProps, closeRequested, selectedAsset, isDownloading,
                   downloadError, backendAvailable, abortController, sentRequests,
                   pendingDownloads, abortedDownloads, browserDownloads, outsideModal>>

\* The widget's expired-callback: setTurnstileToken(null).
TurnstileExpired ==
    /\ modalPhase = "mounted"
    /\ turnstileToken # Null
    /\ turnstileToken' = Null
    /\ UNCHANGED <<modalPhase, modalProps, closeRequested, selectedAsset, isDownloading,
                   downloadError, backendAvailable, abortController, sentRequests,
                   pendingDownloads, abortedDownloads, browserDownloads, outsideModal>>

\* The widget's error-callback: setTurnstileToken(null).
TurnstileError ==
    /\ modalPhase = "mounted"
    /\ turnstileToken' = Null
    /\ UNCHANGED <<modalPhase, modalProps, closeRequested, selectedAsset, isDownloading,
                   downloadError, backendAvailable, abortController, sentRequests,
                   pendingDownloads, abortedDownloads, browserDownloads, outsideModal>>

\* A band button: setSelectedAsset(bandId), disabled while isDownloading.
SelectAsset ==
    /\ modalPhase = "mounted"
    /\ ~isDownloading
    /\ \E bandId \in availableBands : selectedAsset' = Str(bandId)
    /\ UNCHANGED <<modalPhase, modalProps, closeRequested, isDownloading, downloadError,
                   backendAvailable, abortController, turnstileToken, sentRequests,
                   pendingDownloads, abortedDownloads, browserDownloads, outsideModal>>

\* Mutant: the Download button does not look at the token.
DownloadEnabled_WithoutToken ==
    ~(isDownloading \/ backendAvailable = Bool(FALSE) \/ ~Truthy(selectedAsset)
      \/ downloadsDisabled)

\* The Download button is enabled: disabled={isDownloading || backendAvailable
\* === false || !selectedAsset || downloadsDisabled || !turnstileToken}.
DownloadEnabled ==
    ~(isDownloading \/ backendAvailable = Bool(FALSE) \/ ~Truthy(selectedAsset)
      \/ downloadsDisabled \/ ~Truthy(turnstileToken))

\* The branch handleDownload takes in the current state.
HandleDownloadBranch ==
    IF ~Truthy(selectedAsset) \/ isDownloading
    THEN (IF ~Truthy(selectedAsset) THEN "no band" ELSE "downloading")
    ELSE IF ~Truthy(turnstileToken) THEN "no token"
    ELSE "send"

\* The body downloadTile posts to /download: the first asset of the selected
\* band, no bbox, and turnstileToken || null.
DownloadBody ==
    [collection      |-> modalProps.collection,
     item_id         |-> modalProps.item.id,
     asset_key       |-> modalCollectionConfig.v.bands[selectedAsset.v].assets[1],
     bbox            |-> Null,
     turnstile_token |-> IF Truthy(turnstileToken) THEN turnstileToken ELSE Null]

\* A state update of the modal: it is dropped once the modal is unmounted.
SetState(now, next) == IF modalPhase = "unmounted" THEN now ELSE next

\* abortController.abort()
Abort(controller) ==
    IF controller # Null THEN abortedDownloads \cup {controller.v} ELSE abortedDownloads

\* The cleanup of the effect on abortController, run when a commit replaces the
\* controller: the controller of the previous render is aborted.
ControllerCleanup == SetState(abortedDownloads, Abort(abortController))

\* handleDownload up to the await of fetch.
handleDownload ==
    CASE HandleDownloadBranch = "no band" ->
            /\ downloadError' = Str("Please select a band to download")
            /\ UNCHANGED <<isDownloading, abortController, sentRequests, pendingDownloads,
                           abortedDownloads>>
      [] HandleDownloadBranch = "downloading" ->
            UNCHANGED <<downloadError, isDownloading, abortController, sentRequests,
                        pendingDownloads, abortedDownloads>>
      [] HandleDownloadBranch = "no token" ->
            /\ downloadError' = Str("Please complete the security check")
            /\ UNCHANGED <<isDownloading, abortController, sentRequests, pendingDownloads,
                           abortedDownloads>>
      [] HandleDownloadBranch = "send" ->
            /\ isDownloading' = TRUE
            /\ downloadError' = Null
            /\ abortController' = Num(Len(sentRequests) + 1)
            /\ sentRequests' = Append(sentRequests, DownloadBody)
            /\ pendingDownloads' = pendingDownloads \cup {Len(sentRequests) + 1}
            /\ abortedDownloads' = ControllerCleanup

\* A click on the Download button.
ClickDownload ==
    /\ modalPhase = "mounted"
    /\ DownloadEnabled
    /\ Len(sentRequests) < MaxDownloads
    /\ handleDownload
    /\ UNCHANGED <<modalPhase, modalProps, closeRequested, selectedAsset, backendAvailable,
                   turnstileToken, browserDownloads, outsideModal>>

\* What the backend answers to a request it accepts.
Responses ==
    {[download_url |-> "https://exports.example/a.tif?sig=1", filename |-> "a.tif"],
     [download_url |-> "https://exports.example/b.tif?sig=2", filename |-> "b.tif"]}

\* How a request that is not aborted fails: a response that is not ok, with or
\* without a detail, or a network error.
DownloadFailures ==
    {[kind |-> "http", detail |-> Undefined],
     [kind |-> "http", detail |-> Str("Turnstile verification failed")],
     [kind |-> "network", message |-> Str("Failed to fetch")]}

\* err.message || 'Download failed. Please try again.', where downloadTile
\* throws new Error(error.detail || 'Download failed').
DownloadErrorMessage(failure) ==
    LET message == IF failure.kind = "http"
                   THEN (IF Truthy(failure.detail) THEN failure.detail
                         ELSE Str("Download failed"))
                   ELSE failure.message
    IN  IF Truthy(message) THEN message ELSE Str("Download failed. Please try again.")

\* Mutant: the success branch triggers no browser download.
DownloadsAfterSuccess_None(answer) ==
    browserDownloads

\* downloadFromUrl(response.download_url, response.filename)
DownloadsAfterSuccess(answer) ==
    Append(browserDownloads, [url |-> answer.download_url, filename |-> answer.filename])

\* The backend accepts a request: the rest of the try block of handleDownload.
DownloadSucceeded ==
    /\ \E id \in pendingDownloads \ abortedDownloads :
         /\ pendingDownloads' = pendingDownloads \ {id}
         /\ \E answer \in Responses : browserDownloads' = DownloadsAfterSuccess(answer)
    /\ isDownloading' = SetState(isDownloading, FALSE)
    /\ abortController' = SetState(abortController, Null)
    /\ abortedDownloads' = ControllerCleanup
    /\ closeRequested' = TRUE
    /\ UNCHANGED <<modalPhase, modalProps, selectedAsset, downloadError, backendAvailable,
                   turnstileToken, sentRequests, outsideModal>>

\* A request fails: the catch block of handleDownload, the error shown.
DownloadFailed ==
    /\ \E id \in pendingDownloads \ abortedDownloads :
         pendingDownloads' = pendingDownloads \ {id}
    /\ \E failure \in DownloadFailures :
         downloadError' = SetState(downloadError, DownloadErrorMessage(failure))
    /\ isDownloading' = SetState(isDownloading, FALSE)
    /\ abortController' = SetState(abortController, Null)
    /\ turnstileToken' = SetState(turnstileToken, Null)
    /\ abortedDownloads' = ControllerCleanup
    /\ UNCHANGED <<modalPhase, modalProps, closeRequested, selectedAsset, backendAvailable,
                   sentRequests, browserDownloads, outsideModal>>

\* An aborted request rejects with an AbortError: the catch block of
\* handleDownload, no error shown.
DownloadAborted ==
    /\ \E id \in pendingDownloads \cap abortedDownloads :
         pendingDownloads' = pendingDownloads \ {id}
    /\ isDownloading' = SetState(isDownloading, FALSE)
    /\ abortController' = SetState(abortController, Null)
    /\ turnstileToken' = SetState(turnstileToken, Null)
    /\ abortedDownloads' = ControllerCleanup
    /\ UNCHANGED <<modalPhase, modalProps, closeRequested, selectedAsset, downloadError,
                   backendAvailable, sentRequests, browserDownloads, outsideModal>>

\* handleCancel: the close button and the Escape key while isDownloading.
HandleCancel ==
    /\ modalPhase = "mounted"
    /\ isDownloading
    /\ abortedDownloads' = Abort(abortController)
    /\ abortController' = Null
    /\ isDownloading' = FALSE
    /\ downloadError' = Null
    /\ closeRequested' = TRUE
    /\ UNCHANGED <<modalPhase, modalProps, selectedAsset, backendAvailable, turnstileToken,
                   sentRequests, pendingDownloads, browserDownloads, outsideModal>>

\* onClose alone: the Cancel button of the footer at any time; the close button,
\* the Escape key and a click on the overlay while not downloading.
CloseModal ==
    /\ modalPhase = "mounted"
    /\ closeRequested' = TRUE
    /\ UNCHANGED <<modalPhase, modalProps, selectedAsset, isDownloading, downloadError,
                   backendAvailable, abortController, turnstileToken, sentRequests,
                   pendingDownloads, abortedDownloads, browserDownloads, outsideModal>>

\* The parent, told to close, unmounts the modal: the cleanup of the effect on
\* abortController aborts the request in flight, and the widget is removed.
ModalUnmount ==
    /\ modalPhase = "mounted"
    /\ closeRequested
    /\ modalPhase' = "unmounted"
    /\ abortedDownloads' = Abort(abortController)
    /\ UNCHANGED <<modalProps, closeRequested, selectedAsset, isDownloading, downloadError,
                   backendAvailable, abortController, turnstileToken, sentRequests,
                   pendingDownloads, browserDownloads, outsideModal>>

NextModal ==
    \/ ModalMount
    \/ HealthReported
    \/ TurnstileCallback
    \/ TurnstileExpired
    \/ TurnstileError
    \/ SelectAsset
    \/ ClickDownload
    \/ DownloadSucceeded
    \/ DownloadFailed
    \/ DownloadAborted
    \/ HandleCancel
    \/ CloseModal
    \/ ModalUnmount

\* One download modal, from its first render until it is unmounted and its
\* requests have settled; the viewer behind it stands still.
SpecModal == InitModal /\ [][NextModal]_vars

----------------------------------------------------------------------------
(* Claims about the exported functions (checked under SpecApi) *)

Returned(fn) == call.fn = fn /\ ret # Pending

\* The values of the parameters called name, in the order they appear.
RECURSIVE ParamValues(_, _)
ParamValues(params, name) ==
    IF params = <<>> THEN <<>>
    ELSE (IF params[1][1] = name THEN <<params[1][2]>> ELSE <<>>)
         \o ParamValues(Tail(params), name)

ParamNames(params) == [i \in 1..Len(params) |-> params[i][1]]

IsRegisteredBand(c, b) == c \in RegisteredIds /\ b \in DOMAIN COLLECTIONS[c].bands

\* The fixed TiTiler template, as the README documents it.
TiTilerTemplate ==
    "https://planetarycomputer.microsoft.com/api/data/v1/item/tiles/WebMercatorQuad/{z}/{x}/{y}@1x"

\* What C1 promises of a URL built for a registered collection and band.
TileUrlShape(url, c, i, b) ==
    LET assets == COLLECTIONS[c].bands[b].assets
        n == Len(assets)
    IN  /\ url.t = "string"
        /\ url.base = TiTilerTemplate
        /\ Len(url.params) >= 2 + n
        /\ SubSeq(url.params, 1, 2) = <<<<"collection", c>>, <<"item", i>>>>
        /\ \A k \in 1..n : url.params[2 + k] = <<"assets", assets[k]>>
        /\ ParamValues(url.params, "assets") = assets
        /\ ParamValues(url.params, "collection") = <<c>>
        /\ ParamValues(url.params, "item") = <<i>>

\* C1: buildTileUrl returns null when the collection is not in the registry or
\* the band is not a band of that collection; otherwise it returns the fixed
\* TiTiler template followed by the parameters collection, item and one assets
\* parameter per configured asset, in that order.
C1_BuildTileUrlContract ==
    Returned("buildTileUrl") =>
        IF IsRegisteredBand(call.collection, call.band)
        THEN TileUrlShape(ret, call.collection, call.itemId, call.band)
        ELSE ret = Null

\* C1 holds of every collection id and band that is not a property name of
\* Object.prototype.
C1_OnOwnKeys ==
    (Returned("buildTileUrl")
       /\ call.collection \notin ObjectPrototypeKeys
       /\ call.band \notin ObjectPrototypeKeys) =>
        IF IsRegisteredBand(call.collection, call.band)
        THEN TileUrlShape(ret, call.collection, call.itemId, call.band)
        ELSE ret = Null

IsDynamicBand(c, b) ==
    IsRegisteredBand(c, b) /\ COLLECTIONS[c].bands[b].rescale = Str("dynamic")

IsStaticBand(c, b) ==
    IsRegisteredBand(c, b) /\ COLLECTIONS[c].bands[b].rescale # Str("dynamic")

\* The range C2 names for a dynamic band.
RangeFor(c, b, options) ==
    IF c = "cop-dem-glo-30" THEN options.elevationRange ELSE options.thermalRange

NoRanges == [elevationRange |-> Undefined, thermalRange |-> Undefined]

\* The ranges that C2 says do not influence the URL are indeed without influence.
RangesWithoutInfluence ==
    Returned("buildTileUrl") =>
        LET c == call.collection
            i == call.itemId
            b == call.band
            o == call.options
        IN  /\ c = "cop-dem-glo-30" =>
                 ret = buildTileUrl(c, i, b, [o EXCEPT !.thermalRange = Undefined])
            /\ c = "landsat-c2-l2" =>
                 ret = buildTileUrl(c, i, b, [o EXCEPT !.elevationRange = Undefined])
            /\ IsStaticBand(c, b) =>
                 /\ ret = buildTileUrl(c, i, b, NoRanges)
                 /\ COLLECTIONS[c].bands[b].rescale.t = "string" =>
                      ParamValues(ret.params, "rescale") = <<COLLECTIONS[c].bands[b].rescale.v>>

\* C2 as claimed: a dynamic band always gets exactly one rescale parameter,
\* taken from the caller's range.
C2_DynamicRescaleAlways ==
    /\ RangesWithoutInfluence
    /\ (Returned("buildTileUrl") /\ IsDynamicBand(call.collection, call.band)) =>
          LET r == RangeFor(call.collection, call.band, call.options)
              got == ParamValues(ret.params, "rescale")
          IN  /\ Len(got) = 1
              /\ HasRange(r) => got = <<ToString(r.min) \o "," \o ToString(r.max)>>

\* C2 amended: a dynamic band gets exactly one rescale parameter
\* '<min>,<max>' from the elevation range (cop-dem-glo-30 elevation) or the
\* thermal range (landsat-c2-l2 thermal) when the caller passes that range, and
\* no rescale parameter when the caller omits it; the other range, and both
\* ranges for a band with a static rescale, never influence the URL.
C2_DynamicRescale ==
    /\ RangesWithoutInfluence
    /\ (Returned("buildTileUrl") /\ IsDynamicBand(call.collection, call.band)) =>
          LET r == RangeFor(call.collection, call.band, call.options)
              got == ParamValues(ret.params, "rescale")
          IN  /\ HasRange(r) => got = <<ToString(r.min) \o "," \o ToString(r.max)>>
              /\ ~HasRange(r) => got = <<>>

\* A thermal URL has been built from the range 30000..40000 while an
\* elevation range was passed too.
C2_Witness ==
    /\ Returned("buildTileUrl")
    /\ call.collection = "landsat-c2-l2" /\ call.band = "thermal"
    /\ call.options = [elevationRange |-> [min |-> -10, max |-> 150],
                       thermalRange |-> [min |-> 30000, max |-> 40000]]
    /\ ParamValues(ret.params, "rescale") = <<"30000,40000">>

\* What C3 promises of a single-asset band with a static rescale.
SingleBandShape(url, band) ==
    /\ ParamValues(url.params, "rescale") = <<band.rescale.v>>
    /\ ParamValues(url.params, "colormap_name") = <<band.colormap.v>>

IsSingleStaticBand(c, b) ==
    /\ IsRegisteredBand(c, b)
    /\ Len(COLLECTIONS[c].bands[b].assets) = 1
    /\ COLLECTIONS[c].bands[b].rescale.t = "string"
    /\ COLLECTIONS[c].bands[b].rescale # Str("dynamic")

ExpectedLegend(c, b, options) ==
    LET cfg == COLLECTIONS[c].bands[b].legend.v
        r == RangeFor(c, b, options)
    IN  IF cfg.min = "dynamic" /\ HasRange(r)
        THEN [title |-> cfg.title, gradient |-> cfg.gradient,
              min |-> ToString(r.min) \o (IF c = "cop-dem-glo-30" THEN "m" ELSE ""),
              max |-> ToString(r.max) \o (IF c = "cop-dem-glo-30" THEN "m" ELSE "")]
        ELSE cfg

HasLegend(c, b) == IsRegisteredBand(c, b) /\ COLLECTIONS[c].bands[b].legend # Null

\* C4: getLegendConfig returns null when the collection is unknown, the band is
\* unknown or the band's legend is null; otherwise the configured title and
\* gradient with the configured labels, dynamic labels replaced by the range
\* ('<min>m'/'<max>m' for cop-dem-glo-30, '<min>'/'<max>' for Landsat thermal).
C4_LegendContract ==
    Returned("getLegendConfig") =>
        IF HasLegend(call.collection, call.band)
        THEN ret = Obj(ExpectedLegend(call.collection, call.band, call.options))
        ELSE ret = Null

\* C4 holds of every collection id that is not a property name of
\* Object.prototype.
C4_OnOwnKeys ==
    (Returned("getLegendConfig") /\ call.collection \notin ObjectPrototypeKeys) =>
        IF HasLegend(call.collection, call.band)
        THEN ret = Obj(ExpectedLegend(call.collection, call.band, call.options))
        ELSE ret = Null

\* The collection the search is made for: the argument, or its default.
SearchedCollection == IF call.collection = Undefined THEN "sentinel-2-l2a" ELSE call.collection.v

\* C5: searchSatelliteData always sends collections=[collection], the given bbox
\* and the limit (default 10); datetime='<startDate>/<endDate>' exactly when the
\* collection's hasDateFilter is true (omitted for cop-dem-glo-30); the query
\* eo:cloud_cover < cloudCover exactly when its hasCloudFilter is true, which is
\* exactly sentinel-2-l2a and landsat-c2-l2; neither for an unregistered id.
C5_SearchRequest ==
    /\ {c \in RegisteredIds : COLLECTIONS[c].hasCloudFilter} = {"sentinel-2-l2a", "landsat-c2-l2"}
    /\ {c \in RegisteredIds : ~COLLECTIONS[c].hasDateFilter} = {"cop-dem-glo-30"}
    /\ Returned("searchSatelliteData") =>
        LET c == SearchedCollection
            body == ret.v
            dated == c \in RegisteredIds /\ COLLECTIONS[c].hasDateFilter
            clouded == c \in RegisteredIds /\ COLLECTIONS[c].hasCloudFilter
        IN  /\ body.collections = <<c>>
            /\ body.bbox = call.bbox
            /\ body.limit = (IF call.limit = Undefined THEN 10 ELSE call.limit.v)
            /\ ("datetime" \in DOMAIN body) <=> dated
            /\ dated => body.datetime = "2024-06-01/2024-07-31"
            /\ ("query" \in DOMAIN body) <=> clouded
            /\ clouded => body.query = [eo_cloud_cover |->
                    [lt |-> IF call.cloudCover = Undefined THEN 20 ELSE call.cloudCover.v]]
            /\ DOMAIN body \subseteq {"collections", "bbox", "limit", "datetime", "query"}
            /\ c = "cop-dem-glo-30" => DOMAIN body = {"collections", "bbox", "limit"}
            /\ c \notin RegisteredIds => DOMAIN body = {"collections", "bbox", "limit"}

\* A Sentinel-1 search has been built: dated, without a cloud filter, with the
\* default limit.
C5_Witness ==
    /\ Returned("searchSatelliteData")
    /\ call.collection = Str("sentinel-1-rtc")
    /\ call.limit = Undefined
    /\ DOMAIN ret.v = {"collections", "bbox", "limit", "datetime"}
    /\ ret.v.limit = 10

RequiredProperties ==
    {"name", "displayName", "type", "defaultBand", "bands", "hasCloudFilter", "hasDateFilter"}

\* C6: the registry holds the five ids; every collection getAllCollectionIds
\* returns has name, displayName, type, defaultBand, bands and boolean
\* hasCloudFilter and hasDateFilter; getCollection and getBandConfig return null
\* (never undefined, never throw) for an id or band that is not registered.
C6_RegistryContract ==
    /\ {getAllCollectionIds[k] : k \in 1..Len(getAllCollectionIds)}
         = {"sentinel-2-l2a", "landsat-c2-l2", "sentinel-1-rtc", "modis-13Q1-061", "cop-dem-glo-30"}
    /\ \A k \in 1..Len(getAllCollectionIds) :
         LET config == getCollection(getAllCollectionIds[k]) IN
         /\ config.t = "object"
         /\ RequiredProperties \subseteq DOMAIN config.v
         /\ config.v.hasCloudFilter \in BOOLEAN
         /\ config.v.hasDateFilter \in BOOLEAN
    /\ (Returned("getCollection") /\ call.collection \notin RegisteredIds) => ret = Null
    /\ (Returned("getBandConfig") /\ ~IsRegisteredBand(call.collection, call.band)) => ret = Null

\* C6 holds of every id and band that is not a property name of Object.prototype.
C6_OnOwnKeys ==
    /\ {getAllCollectionIds[k] : k \in 1..Len(getAllCollectionIds)}
         = {"sentinel-2-l2a", "landsat-c2-l2", "sentinel-1-rtc", "modis-13Q1-061", "cop-dem-glo-30"}
    /\ \A k \in 1..Len(getAllCollectionIds) :
         LET config == getCollection(getAllCollectionIds[k]) IN
         /\ config.t = "object"
         /\ RequiredProperties \subseteq DOMAIN config.v
         /\ config.v.hasCloudFilter \in BOOLEAN
         /\ config.v.hasDateFilter \in BOOLEAN
    /\ (Returned("getCollection") /\ call.collection \notin RegisteredIds
          /\ call.collection \notin ObjectPrototypeKeys) => ret = Null
    /\ (Returned("getBandConfig") /\ ~IsRegisteredBand(call.collection, call.band)
          /\ call.collection \notin ObjectPrototypeKeys
          /\ call.band \notin ObjectPrototypeKeys) => ret = Null

----------------------------------------------------------------------------
(* Claims about the overlays of the map and the search lifecycle *)

\* The overlay effect has run on a ready map since the last change.
EffectSettled == mapReady /\ ~effectPending

\* A bbox of four numbers [west, south, east, north] with south <= north and
\* west <= east.
WellFormedBbox(bbox) ==
    /\ bbox.t = "array"
    /\ Len(bbox.v) = 4
    /\ bbox.v[2] <= bbox.v[4]
    /\ bbox.v[1] <= bbox.v[3]

\* The ids, in result order, of the selected results with a well-formed bbox.
OverlaidIds ==
    IF searchResults = Null THEN <<>>
    ELSE LET shown == SelectSeq(searchResults.v,
                        LAMBDA item : item.id \in Range(selectedImages)
                                      /\ WellFormedBbox(item.bbox))
         IN  [k \in 1..Len(shown) |-> shown[k].id]

\* C7: once the overlay effect has run on a ready map, the recorded overlays
\* are exactly one entry, in result order, per search result that is selected
\* and has a bbox of four numbers with south <= north and west <= east; the
\* layers on the map are exactly the image and border layers of those entries,
\* so every layer of the previous run is gone; an empty selection leaves no
\* layer on the map.
C7_OverlaysFollowSelection ==
    EffectSettled =>
        /\ [k \in 1..Len(overlayLayers) |-> overlayLayers[k].id] = OverlaidIds
        /\ mapLayers = LayersOf(overlayLayers)
        /\ \A k \in 1..Len(overlayLayers) :
              (overlayLayers[k].border # Null) <=> showBoundaries
        /\ selectedImages = <<>> => overlayLayers = <<>> /\ mapLayers = {}

\* Two results are selected, one of them with its corners in the wrong order,
\* and the effect has left the one overlay of the other, with its border.
C7_Witness ==
    /\ EffectSettled
    /\ Len(selectedImages) = 2
    /\ Len(overlayLayers) = 1
    /\ overlayLayers[1].id = "tile-2"
    /\ Cardinality(mapLayers) = 2

\* The tile URL an overlay of the image must have for the state shown.
CurrentUrl(imageId) ==
    buildTileUrl(currentCollection, imageId,
                 IF imageId \in DOMAIN selectedBands THEN selectedBands[imageId]
                 ELSE COLLECTIONS[currentCollection].defaultBand,
                 [elevationRange |-> elevationRange, thermalRange |-> thermalRange])

\* C8: on a ready map no change of elevationRange, thermalRange, a band choice,
\* the collection or the selection stays without a run of the overlay effect,
\* and once the effect has run every overlay and every overlay tile layer on
\* the map has the URL buildTileUrl(currentCollection, imageId, the band chosen for
\* the image or the collection's default band, the current ranges).
C8_OverlaysFollowRanges ==
    EffectSettled =>
        /\ \A k \in 1..Len(overlayLayers) :
              overlayLayers[k].image.url = CurrentUrl(overlayLayers[k].id)
        /\ {l.url : l \in {m \in mapLayers : m.kind = "tileLayer"}}
              = {CurrentUrl(OverlaidIds[k]) : k \in 1..Len(OverlaidIds)}

\* The elevation slider was moved while an elevation overlay was shown, and
\* the overlay on the map is rescaled to the new range.
C8_Witness ==
    /\ EffectSettled
    /\ currentCollection = "cop-dem-glo-30"
    /\ elevationRange = [min |-> 0, max |-> 150]
    /\ Len(overlayLayers) = 1
    /\ <<"rescale", "0,150">> \in Range(overlayLayers[1].image.url.params)
    /\ overlayLayers[1].image \in mapLayers

\* A step in which the request in flight settles without results.
SearchFails == request # Null /\ request' = Null /\ response' \in Failures

\* C9: when the search request fails, handleSearch sets the error message
\* 'Failed to search for imagery. Please try again.', searchResults to null,
\* selectedImages to the empty list and isLoading to false, and leaves
\* currentCollection and selectedBands as they were.
C9_FailedSearch ==
    [][SearchFails =>
          /\ error' = Str("Failed to search for imagery. Please try again.")
          /\ searchResults' = Null
          /\ selectedImages' = <<>>
          /\ isLoading' = FALSE
          /\ currentCollection' = currentCollection
          /\ selectedBands' = selectedBands]_vars

\* A search failed after a Landsat search with a band chosen: the band choice
\* and the collection survive, results and selection are gone.
C9_Witness ==
    /\ request = Null
    /\ response \in Failures
    /\ error = Str("Failed to search for imagery. Please try again.")
    /\ searchResults = Null
    /\ selectedImages = <<>>
    /\ ~isLoading
    /\ currentCollection = "landsat-c2-l2"
    /\ selectedBands # <<>>

\* C10: isLoading is true exactly while a catalog request is in flight, and
\* every request sent is followed by a state with no request in flight and
\* isLoading false, whether it resolved or was rejected.
C10_LoadingStops ==
    /\ [](isLoading <=> request # Null)
    /\ (request # Null) ~> (request = Null /\ ~isLoading)

\* A request resolved and loading has stopped.
C10_Witness ==
    /\ request = Null
    /\ response # Null
    /\ response.t = "resolved"
    /\ searchResults # Null
    /\ ~isLoading

----------------------------------------------------------------------------
(* Claims about the search form *)

\* The number of catalog requests in flight.
InFlightCount == Len(InFlight)

\* A step that replaces the stored results.
ResultsWritten == searchResults' # searchResults

\* C11: the submit button is enabled exactly when no search is in progress,
\* with or without a search point, and disabled exactly while isLoading is
\* true; at most one catalog request is in flight at any time; and every step
\* that replaces the stored results settles the request that was sent last.
C11_OneSearchAtATime ==
    /\ [](SubmitEnabled <=> InFlightCount = 0)
    /\ [](SubmitEnabled <=> ~isLoading)
    /\ [](InFlightCount <= 1)
    /\ [][ResultsWritten => request # Null /\ request' = Null /\ overtaken = <<>>]_vars

\* A second search, sent with a search point set, has replaced the results of
\* the first, and the button is enabled again.
C11_Witness ==
    /\ SubmitEnabled
    /\ currentBbox # Null
    /\ InFlightCount = 0
    /\ currentCollection = "landsat-c2-l2"
    /\ searchResults # Null
    /\ searchResults.v # <<>>

----------------------------------------------------------------------------
(* Claims about the download modal (checked under SpecModal) *)

\* handleDownload, run in the current state, sets the error to message and
\* changes nothing else.
HandleDownloadOnlySetsError(message) ==
    ENABLED (/\ handleDownload
             /\ downloadError' = message
             /\ UNCHANGED <<isDownloading, abortController, sentRequests, pendingDownloads,
                            abortedDownloads, modalPhase, modalProps, closeRequested,
                            selectedAsset, backendAvailable, turnstileToken,
                            browserDownloads, outsideModal>>)

\* handleDownload, run in the current state, sends a request.
HandleDownloadSends ==
    ENABLED (/\ handleDownload
             /\ sentRequests' # sentRequests
             /\ UNCHANGED <<modalPhase, modalProps, closeRequested, selectedAsset,
                            backendAvailable, turnstileToken, browserDownloads,
                            outsideModal>>)

\* A request is sent in this step.
RequestSent == sentRequests' # sentRequests

\* C12: the modal sends a download request only while it holds a Turnstile
\* token, and the request carries that token.  While it holds none the
\* Download button is disabled and handleDownload sends nothing; with a band
\* selected and no download in progress (the only states where its token check
\* is reached) it only sets the error 'Please complete the security check'.
C12_BotProtection ==
    /\ [](modalPhase = "mounted" /\ ~Truthy(turnstileToken)
            => /\ ~DownloadEnabled
               /\ ~HandleDownloadSends
               /\ (Truthy(selectedAsset) /\ ~isDownloading
                     => HandleDownloadOnlySetsError(Str("Please complete the security check"))))
    /\ [][RequestSent
            => /\ Truthy(turnstileToken)
               /\ Len(sentRequests') = Len(sentRequests) + 1
               /\ SubSeq(sentRequests', 1, Len(sentRequests)) = sentRequests
               /\ sentRequests'[Len(sentRequests')].turnstile_token = turnstileToken]_vars

\* Two requests were sent with different tokens, the second failed, and the
\* token is cleared.
C12_Witness ==
    /\ modalPhase = "mounted"
    /\ Len(sentRequests) = 2
    /\ sentRequests[1].turnstile_token = Str("token-1")
    /\ sentRequests[2].turnstile_token = Str("token-2")
    /\ pendingDownloads = {}
    /\ ~Truthy(turnstileToken)
    /\ downloadError = Str("Turnstile verification failed")

\* A browser download is triggered in this step.
DownloadTriggered == browserDownloads' # browserDownloads

\* C13: a successful answer of the backend triggers exactly one browser
\* download with the download_url and filename of the answer, resets
\* isDownloading, clears the abort controller and calls onClose; a browser
\* download is triggered by nothing but such an answer to a request that was
\* sent and not aborted.
C13_DownloadOnSuccess ==
    /\ [][DownloadSucceeded
            => /\ \E answer \in Responses :
                    browserDownloads' =
                        Append(browserDownloads, [url      |-> answer.download_url,
                                                  filename |-> answer.filename])
               /\ isDownloading' = FALSE
               /\ abortController' = Null
               /\ closeRequested']_vars
    /\ [][DownloadTriggered
            => /\ DownloadSucceeded
               /\ \E id \in 1..Len(sentRequests) :
                    /\ id \in pendingDownloads \ abortedDownloads
                    /\ pendingDownloads' = pendingDownloads \ {id}]_vars
    /\ [](Len(browserDownloads) <= Len(sentRequests) - Cardinality(pendingDownloads))

\* The second request was answered with b.tif after the first had failed: one
\* browser download, and the modal is closed.
C13_Witness ==
    /\ Len(sentRequests) = 2
    /\ browserDownloads = <<[url |-> "https://exports.example/b.tif?sig=2", filename |-> "b.tif"]>>
    /\ ~isDownloading
    /\ abortController = Null
    /\ modalPhase = "unmounted"

\* C14: a modal opened for a collection of type 'sar' (sentinel-1-rtc) never
\* sends a download request, and no modal sends one once the health check has
\* reported the backend unavailable: in both cases the Download button is
\* disabled, whatever band, health and token the modal holds.
C14_NoSarDownload ==
    /\ [](modalProps.collection = "sentinel-1-rtc" => downloadsDisabled)
    /\ [](downloadsDisabled \/ backendAvailable = Bool(FALSE) => ~DownloadEnabled)
    /\ [](downloadsDisabled => sentRequests = <<>>)
    /\ [][RequestSent => ~downloadsDisabled /\ backendAvailable # Bool(FALSE)]_vars

\* The modal of a Sentinel-1 item with the other band selected, a healthy
\* backend and a token: nothing but the collection's type disables the button.
C14_Witness ==
    /\ modalPhase = "mounted"
    /\ modalProps.collection = "sentinel-1-rtc"
    /\ selectedAsset = Str("vh")
    /\ backendAvailable = Bool(TRUE)
    /\ Truthy(turnstileToken)
    /\ ~isDownloading
    /\ sentRequests = <<>>

----------------------------------------------------------------------------
(* Claims about what the results list and the search form render
   (checked under Spec) *)

\* The list as App renders it.
RenderedList == ImageList(searchResults, isLoading)

\* C15: the results list shows the loading message whenever isLoading, even
\* over results; else 'Ready to search' when items is null; else 'No imagery
\* found' when items is empty; else 'Found <n> images' and one row per item in
\* order.  Checkboxes, band buttons and zoom buttons are in that last view only.
C15_FourViews ==
    /\ isLoading
         => RenderedList.view = "loading"
            /\ RenderedList.text = "Searching for satellite imagery..."
    /\ ~isLoading /\ searchResults = Null
         => RenderedList.view = "ready" /\ RenderedList.text = "Ready to search!"
    /\ ~isLoading /\ searchResults # Null /\ searchResults.v = <<>>
         => RenderedList.view = "empty"
            /\ RenderedList.text = "No imagery found. Try adjusting your search criteria:"
    /\ ~isLoading /\ searchResults # Null /\ searchResults.v # <<>>
         => /\ RenderedList.view = "results"
            /\ RenderedList.text \in {"Found 1 images", "Found 2 images", "Found 3 images"}
            /\ Len(RenderedList.rows) = Len(searchResults.v)
            /\ \A k \in 1..Len(searchResults.v) :
                 /\ RenderedList.rows[k].id = searchResults.v[k].id
                 /\ RenderedList.rows[k].checkbox
    /\ RenderedList.view # "results" => RenderedList.rows = <<>>
    /\ RowsRendered <=> RenderedList.view = "results"

\* A second search is in flight over the two results of the first, one of them
\* selected.
C15_Witness ==
    /\ isLoading
    /\ searchResults # Null
    /\ Len(searchResults.v) = 2
    /\ selectedImages # <<>>
    /\ RenderedList.rows = <<>>

\* The form as App renders it.
RenderedForm == SearchBarControls(satellite, selectedBands)

\* C16: the form renders the date inputs exactly when the collection selected
\* in it has hasDateFilter, the cloud cover slider exactly when it has
\* hasCloudFilter (both for sentinel-2-l2a), the elevation sliders exactly for
\* cop-dem-glo-30, and the thermal sliders exactly for landsat-c2-l2 with the
\* thermal band chosen for at least one image.
C16_FormAdapts ==
    /\ \A c \in RegisteredIds :
         LET form == SearchBarControls(c, selectedBands) IN
         /\ form.dates <=> COLLECTIONS[c].hasDateFilter
         /\ form.cloud <=> COLLECTIONS[c].hasCloudFilter
         /\ form.elevation <=> c = "cop-dem-glo-30"
         /\ form.thermal <=> /\ c = "landsat-c2-l2"
                             /\ \E id \in DOMAIN selectedBands : selectedBands[id] = "thermal"
    /\ satellite = "sentinel-2-l2a" => RenderedForm.dates /\ RenderedForm.cloud
    /\ satellite = "cop-dem-glo-30" => ~RenderedForm.dates /\ ~RenderedForm.cloud
    /\ satellite = "landsat-c2-l2" /\ selectedBands = <<>> => ~RenderedForm.thermal

\* The results are Landsat images, one with the thermal band chosen, and the
\* form is on landsat-c2-l2: dates, cloud cover and thermal sliders.
C16_Witness ==
    /\ satellite = "landsat-c2-l2"
    /\ currentCollection = "landsat-c2-l2"
    /\ \E id \in DOMAIN selectedBands : selectedBands[id] = "thermal"
    /\ RenderedForm = [dates |-> TRUE, cloud |-> TRUE, elevation |-> FALSE, thermal |-> TRUE]

----------------------------------------------------------------------------
(* Claims about handleSearch (checked under Spec and FairSpec) *)

\* The request in flight settles in this step with a list of features.
SearchSucceeds ==
    /\ request # Null
    /\ request' = Null
    /\ response'.t = "resolved"
    /\ response'.features.t = "array"

NoSearchArea == currentBbox = Null /\ ~mapReady

\* C18: with no search point and no map centre, handleSearch sets the error
\* 'Unable to determine search area' and nothing else: no request is sent,
\* isLoading stays false, and searchResults, selectedImages, selectedBands and
\* currentCollection are unchanged.
C18_NoSearchArea ==
    /\ [](NoSearchArea => ~isLoading /\ request = Null /\ searchResults = Null)
    /\ [][NoSearchArea
            => /\ request' = Null
               /\ overtaken' = <<>>
               /\ ~isLoading'
               /\ UNCHANGED <<searchResults, selectedImages, selectedBands,
                              currentCollection>>]_vars
    /\ [][NoSearchArea /\ error' # error
            => error' = Str("Unable to determine search area")]_vars
    /\ [][SubmitWithoutArea
            => NoSearchArea /\ error' = Str("Unable to determine search area")]_vars

\* The form was submitted before the map was ready: the error is shown, nothing
\* is loading and nothing was sent.
C18_Witness ==
    /\ NoSearchArea
    /\ error = Str("Unable to determine search area")
    /\ ~isLoading
    /\ request = Null
    /\ response = Null
    /\ searchResults = Null

----------------------------------------------------------------------------
(* Claims about the search point (checked under FairSpec) *)

\* The registered handler runs in this step: a map click while drawing.
HandlerRuns == clickHandlers = 1 /\ clickHandlers' = 0

\* C19: startDrawing sets isDrawing and registers one click handler, and the
\* button is disabled while isDrawing, so at most one handler is registered.
\* The next map click leaves exactly one, new, rectangle on the map, reports
\* its bounds as [west, south, east, north] with west < east and south < north,
\* unregisters the handler and clears isDrawing.  There is at most one search
\* rectangle at any time, and without a registered handler no step replaces it.
C19_OneShotSearchPoint ==
    /\ [](clickHandlers <= 1)
    /\ [](isDrawing <=> clickHandlers = 1)
    /\ [](DrawEnabled <=> ~isDrawing)
    /\ [][isDrawing' /\ ~isDrawing
            => clickHandlers' = clickHandlers + 1 /\ UNCHANGED <<rectangleLayers, currentBbox>>]_vars
    /\ [][HandlerRuns
            => /\ ~isDrawing'
               /\ drawnRectangle' # Null
               /\ drawnRectangle' \notin rectangleLayers
               /\ rectangleLayers' = {drawnRectangle'}
               /\ currentBbox' = Arr(drawnRectangle'.bounds)
               /\ currentBbox'.v[1] < currentBbox'.v[3]
               /\ currentBbox'.v[2] < currentBbox'.v[4]
               /\ \E p \in ClickPoints :
                    currentBbox'.v = <<p.lng - lngOffset, p.lat - latOffset,
                                       p.lng + lngOffset, p.lat + latOffset>>]_vars
    /\ [](Cardinality(rectangleLayers) <= 1)
    /\ [](rectangleLayers = IF drawnRectangle = Null THEN {} ELSE {drawnRectangle})
    /\ [][~HandlerRuns /\ rectangleLayers' # rectangleLayers
            => rectangleLayers' = {} /\ currentBbox' = Null]_vars

\* The search point was set, then set again at the other click point: one
\* rectangle, the second one drawn, and nobody is drawing.
C19_Witness ==
    /\ ~isDrawing
    /\ clickHandlers = 0
    /\ drawnRectangle # Null
    /\ drawnRectangle.stamp = 1
    /\ drawnRectangle.bounds = <<-7415, 3991, -7385, 4009>>
    /\ rectangleLayers = {drawnRectangle}
    /\ currentBbox = Arr(drawnRectangle.bounds)

----------------------------------------------------------------------------
(* Claims about the range sliders (checked under SpecSliders) *)

\* How a slider change takes the range from old to new: the minimum moved above
\* the maximum or the maximum below the minimum and both are set to it, or one
\* bound moved and the other stayed.
ClampedMove(old, new) ==
    \/ new.min = new.max /\ new.min > old.max
    \/ new.min = new.max /\ new.max < old.min
    \/ new.max = old.max /\ new.min <= old.max
    \/ new.min = old.min /\ new.max >= old.min

\* C20: from the initial ranges (elevation -10..150, thermal 28000..55000) every
\* sequence of slider changes keeps min <= max in both ranges; each change
\* either moves one bound and leaves the other, or, when the minimum is moved
\* above the maximum or the maximum below the minimum, sets both to the moved
\* value.
C20_RangesOrdered ==
    /\ [](elevationRange.min <= elevationRange.max)
    /\ [](thermalRange.min <= thermalRange.max)
    /\ [][elevationRange' # elevationRange => ClampedMove(elevationRange, elevationRange')]_vars
    /\ [][thermalRange' # thermalRange => ClampedMove(thermalRange, thermalRange')]_vars

\* The elevation minimum was moved to 500, above the maximum, and the thermal
\* maximum to 20000, below the minimum: both ranges are a single value.
C20_Witness ==
    /\ elevationRange = [min |-> 500, max |-> 500]
    /\ thermalRange = [min |-> 20000, max |-> 20000]

----------------------------------------------------------------------------
(* C21: buildTileUrl and getLegendConfig leave the table alone *)

\* What a call returns when the table is as loaded: a function of the
\* arguments and the configured entries alone.
ResultAsLoaded(c) ==
    IF c.fn = "buildTileUrl"
    THEN buildTileUrl(c.collection, c.itemId, c.band, c.options)
    ELSE IF HasLegend(c.collection, c.band)
         THEN Obj(DynamicLegend(c.collection, c.band,
                                COLLECTIONS[c.collection].bands[c.band].legend.v, c.options))
         ELSE Null

\* The call that has returned is a call of buildTileUrl or getLegendConfig.
RenderCallReturned == call \in RenderCalls /\ ret # Pending

============================================================================
